---------------------------- MODULE Spec2Model ----------------------------
(***************************************************************************)
(* Model of the message routing subsystem of xraph/gameframework:          *)
(* UFlutterMessageRouter (FlutterMessageRouter.h / .cpp) and the owners    *)
(* that register with it (AFlutterGameMode).                                *)
(*                                                                          *)
(* The router is a single object used from one thread; every public        *)
(* method is one atomic step.  Methods call each other (RegisterTarget      *)
(* calls FlushQueue, FlushQueue calls RouteMessage, ...), so each method    *)
(* is an operator from a router record to a router record and an action    *)
(* applies one such operator to the variables.                             *)
(***************************************************************************)
EXTENDS Integers, Sequences, FiniteSets, TLC

VARIABLES
    Targets,                \* TMap<FString, UObject*>
    SingletonFlags,         \* TMap<FString, bool>
    CachedDelegates,        \* TMap<FString, FFlutterMethodDelegate>
    CachedBinaryDelegates,  \* TMap<FString, FFlutterBinaryMethodDelegate>
    MessageQueue,           \* TArray<FQueuedFlutterMessage>
    bQueueUnknownTargets,   \* bool
    MaxQueueSize,           \* int32
    Statistics,             \* FFlutterRouterStatistics
    bHasBegunPlay,          \* AFlutterGameMode: BeginPlay has run and EndPlay has not
    bIsRegistered,          \* AFlutterActor: bool bIsRegistered
    ActiveTransfers,        \* AFlutterBridge: TMap<FString, FChunkedTransfer>
    bIsRegisteredSecond,    \* bIsRegistered of a second AFlutterActor of the same name
    QualityLevels,          \* the engine: Scalability::GetQualityLevels()
    Instance,               \* AFlutterBridge::Instance (static)
    GFlutterBridgeInstance, \* the platform side: static AFlutterBridge* GFlutterBridgeInstance
    BridgeActors,           \* the AFlutterBridge actors: play phase, bIsPaused, CurrentLevelName
    LoadedAssets,           \* UFlutterAssetManager: TMap<FString, FFlutterLoadedAsset>
    PendingLoads,           \* UFlutterAssetManager: the keys of PendingLoads
    AssetStatistics,        \* UFlutterAssetManager: FFlutterAssetStatistics Statistics
    CacheMaxSizeBytes,      \* UFlutterAssetManager: int64
    bIsGameRunning,         \* AFlutterGameMode: bool
    bIsGamePaused,          \* AFlutterGameMode: bool
    CurrentScore,           \* AFlutterGameMode: int32
    CurrentLevel,           \* AFlutterGameMode: int32
    FlutterBridge,          \* AFlutterGameMode: AFlutterBridge* FlutterBridge
    budget,                 \* the number of calls the run may still make
    last,                   \* history: the last call, its result, the handler calls it made
    scen,                   \* history: progress of the eviction-then-flush scenario
    hist                    \* history: the calls of the run, where a specification records them

vars == <<Targets, SingletonFlags, CachedDelegates, CachedBinaryDelegates,
          MessageQueue, bQueueUnknownTargets, MaxQueueSize, Statistics,
          bHasBegunPlay, bIsRegistered, ActiveTransfers, bIsRegisteredSecond,
          QualityLevels, Instance, GFlutterBridgeInstance, BridgeActors,
          LoadedAssets, PendingLoads, AssetStatistics, CacheMaxSizeBytes,
          bIsGameRunning, bIsGamePaused, CurrentScore, CurrentLevel,
          FlutterBridge, budget, last, scen, hist>>

\* the variables of the objects that the router, the game mode, the actors
\* and the quality settings do not touch
bridgeVars == <<Instance, GFlutterBridgeInstance, BridgeActors>>
assetVars == <<LoadedAssets, PendingLoads, AssetStatistics, CacheMaxSizeBytes>>
gameStateVars == <<bIsGameRunning, bIsGamePaused, CurrentScore, CurrentLevel>>
gameVars == <<gameStateVars, FlutterBridge>>
otherVars == <<bridgeVars, assetVars, gameVars>>

-----------------------------------------------------------------------------
(* Bounds of the model *)

\* the number of router calls in a run of Spec
MaxSteps == 4
\* the number of game-mode calls in a run of SpecGame
MaxGameSteps == 5
\* the number of router calls in a run of SpecFlush
MaxFlushSteps == 5
\* the number of calls in a run of SpecStartup
MaxStartupSteps == 4
\* the number of router calls in a run of SpecScenario
MaxScenarioSteps == 7
\* the number of router calls in a run of SpecMethods
MaxMethodSteps == 4
\* the number of calls in a run of SpecBridge
MaxBridgeSteps == 4
\* the number of calls in a run of SpecActor
MaxActorSteps == 4
\* the number of calls in a run of SpecTransfer
MaxTransferSteps == 5
\* the number of calls in a run of SpecTrim
MaxTrimSteps == 5
\* the number of calls in a run of SpecQuality
MaxQualitySteps == 1
\* the number of calls in a run of SpecActors
MaxActorsSteps == 4
\* the number of calls in a run of SpecNames
MaxNameSteps == 4
\* the number of calls in a run of SpecRouted
MaxRoutedSteps == 4
\* the number of calls in a run of SpecOnce
MaxOnceSteps == 4
\* the number of calls in a run of SpecAccounting
MaxAccountingSteps == 4
\* the number of calls in a run of SpecDisabled
MaxDisabledSteps == 5
\* the number of calls in a run of SpecLifetime
MaxLifetimeSteps == 4
\* the number of calls in a run of SpecAssets
MaxAssetSteps == 4
\* the number of calls in a run of SpecCache
MaxCacheSteps == 5

(* Program constants *)

\* UFlutterMessageRouter::UFlutterMessageRouter(): MaxQueueSize(1000)
DefaultMaxQueueSize == 1000
\* UFlutterAssetManager: int64 CacheMaxSizeBytes = 256 * 1024 * 1024
DefaultCacheMaxSizeBytes == 256 * 1024 * 1024
\* EstimateAssetSize: int32 EstimatedSize = 1024 (base overhead)
BaseOverhead == 1024

-----------------------------------------------------------------------------
(* Values *)

\* a null UObject*
nullptr == "nullptr"
\* a default-constructed (unbound) delegate
Unbound == "unbound"
\* FString() and TArray<uint8>()
EmptyString == ""
EmptyBytes == <<>>

\* the inputs the operations are called with
TargetNames == {"A", "B"}
MethodNames == {"m"}
Objects == {"o1", "o2"}
TextDelegates == {"h1", Unbound}
BinaryDelegates == {"bh1", Unbound}
TextData == {"d1", "d2"}
BinaryData == {<<7>>}
QueueSizes == {-1, 1, 2}

\* AFlutterGameMode: FlutterTargetName, this, the methods InitializeFlutter
\* registers and the delegate it binds
FlutterTargetName == "GameMode"
GameModeObject == "AFlutterGameMode_0"
GameModeMethods == {"playerAction", "requestState", "setLevel"}
HandleFlutterMessage == "AFlutterGameMode::HandleFlutterMessage"

\* FFlutterAssetStatistics(), without the float AverageLoadTimeMs
NewAssetStatistics ==
    [TotalAssetsLoaded |-> 0, TotalAssetsUnloaded |-> 0, TotalBytesLoaded |-> 0,
     CurrentMemoryUsage |-> 0, CacheHits |-> 0, CacheMisses |-> 0]

\* the AFlutterBridge actors of a session
BridgeObjects == {"AFlutterBridge_0", "AFlutterBridge_1"}
\* AFlutterBridge::AFlutterBridge(): bIsPaused = false; the actor has not
\* begun play
NewBridgeActor ==
    [Phase |-> "Constructed", bIsPaused |-> FALSE, CurrentLevelName |-> EmptyString]

\* the fields of Scalability::FQualityLevels the bridge reads and writes
QualityFields == {"AntiAliasingQuality", "ShadowQuality", "PostProcessQuality",
                  "TextureQuality", "EffectsQuality", "FoliageQuality",
                  "ViewDistanceQuality"}
\* the quality level an engine starts with
DefaultQualityLevel == 3
\* FQualityLevels::SetFromSingleQualityLevel on the fields above
SingleQualityLevel(Level) == [f \in QualityFields |-> Level]

-----------------------------------------------------------------------------
(* TMap and FString helpers *)

Contains(Map, Key) == Key \in DOMAIN Map

MapAdd(Map, Key, Value) ==
    [k \in (DOMAIN Map) \cup {Key} |-> IF k = Key THEN Value ELSE Map[k]]

MapRemove(Map, Keys) == [k \in (DOMAIN Map) \ Keys |-> Map[k]]

EmptyMap == [k \in {} |-> nullptr]

StartsWith(Str, Prefix) ==
    /\ Len(Str) >= Len(Prefix)
    /\ SubSeq(Str, 1, Len(Prefix)) = Prefix

Max(a, b) == IF a >= b THEN a ELSE b

\* FString::Printf(TEXT("%s:%s"), *Target, *Method)
GetCacheKey(Target, Method) == Target \o ":" \o Method

IsBound(Delegate) == Delegate # Unbound

-----------------------------------------------------------------------------
(* The router as a record: the fields of UFlutterMessageRouter, the value  *)
(* returned by the last bool method (ret) and the delegate executions made *)
(* so far in the current call (calls).                                     *)

Router ==
    [Targets |-> Targets,
     SingletonFlags |-> SingletonFlags,
     CachedDelegates |-> CachedDelegates,
     CachedBinaryDelegates |-> CachedBinaryDelegates,
     MessageQueue |-> MessageQueue,
     bQueueUnknownTargets |-> bQueueUnknownTargets,
     MaxQueueSize |-> MaxQueueSize,
     Statistics |-> Statistics,
     ret |-> FALSE,
     calls |-> <<>>]

\* FFlutterRouterStatistics()
NewStatistics ==
    [MessagesRouted |-> 0, MessagesDropped |-> 0, RegisteredTargets |-> 0,
     CachedDelegates |-> 0, QueuedMessages |-> 0]

\* FQueuedFlutterMessage, as RouteMessage / QueueMessage fill it
TextMessage(Target, Method, Data) ==
    [Target |-> Target, Method |-> Method, Data |-> Data,
     bIsBinary |-> FALSE, BinaryData |-> EmptyBytes]

\* FQueuedFlutterMessage, as RouteBinaryMessage fills it
BinaryMessage(Target, Method, Data) ==
    [Target |-> Target, Method |-> Method, Data |-> EmptyString,
     bIsBinary |-> TRUE, BinaryData |-> Data]

\* Delegate->Execute(Method, Data): one handler invocation
Execute(Delegate, Method, Data, bIsBinary, Bytes) ==
    [Delegate |-> Delegate, Method |-> Method, Data |-> Data,
     bIsBinary |-> bIsBinary, BinaryData |-> Bytes]

-----------------------------------------------------------------------------
(* Routing *)

TryRouteCached(r, CacheKey, Method, Data) ==
    IF /\ Contains(r.CachedDelegates, CacheKey)
       /\ IsBound(r.CachedDelegates[CacheKey])
    THEN [r EXCEPT !.calls = Append(@, Execute(r.CachedDelegates[CacheKey],
                                               Method, Data, FALSE, EmptyBytes)),
                   !.ret = TRUE]
    ELSE [r EXCEPT !.ret = FALSE]

TryRouteBinaryCached(r, CacheKey, Method, Data) ==
    IF /\ Contains(r.CachedBinaryDelegates, CacheKey)
       /\ IsBound(r.CachedBinaryDelegates[CacheKey])
    THEN [r EXCEPT !.calls = Append(@, Execute(r.CachedBinaryDelegates[CacheKey],
                                               Method, EmptyString, TRUE, Data)),
                   !.ret = TRUE]
    ELSE [r EXCEPT !.ret = FALSE]

\* QueueMessage without the RemoveAt(0) of a full queue
QueueMessage_NoEvict(r, Target, Method, Data) ==
    LET q2 == Append(r.MessageQueue, TextMessage(Target, Method, Data))
    IN  [r EXCEPT !.MessageQueue = q2,
                  !.Statistics.QueuedMessages = Len(q2)]

\* QueueMessage dropping the new message when the queue is full
QueueMessage_DropNewest(r, Target, Method, Data) ==
    IF Len(r.MessageQueue) >= r.MaxQueueSize
    THEN r
    ELSE LET q2 == Append(r.MessageQueue, TextMessage(Target, Method, Data))
         IN  [r EXCEPT !.MessageQueue = q2,
                       !.Statistics.QueuedMessages = Len(q2)]

QueueMessage(r, Target, Method, Data) ==
    LET q == IF Len(r.MessageQueue) >= r.MaxQueueSize
             THEN Tail(r.MessageQueue)          \* RemoveAt(0)
             ELSE r.MessageQueue
        q2 == Append(q, TextMessage(Target, Method, Data))
    IN  [r EXCEPT !.MessageQueue = q2,
                  !.Statistics.QueuedMessages = Len(q2)]

\* RouteMessage without MessagesRouted++
RouteMessage_NoCount(r, Target, Method, Data) ==
    LET CacheKey == GetCacheKey(Target, Method)
        t == TryRouteCached(r, CacheKey, Method, Data)
    IN  IF t.ret
        THEN [t EXCEPT !.ret = TRUE]
        ELSE IF Contains(t.Targets, Target)
        THEN [t EXCEPT !.Statistics.MessagesDropped = @ + 1, !.ret = FALSE]
        ELSE IF t.bQueueUnknownTargets
        THEN [QueueMessage(t, Target, Method, Data) EXCEPT !.ret = TRUE]
        ELSE [t EXCEPT !.Statistics.MessagesDropped = @ + 1, !.ret = FALSE]

\* RouteMessage without the registered-target check: every miss is queued
RouteMessage_QueueHardMiss(r, Target, Method, Data) ==
    LET CacheKey == GetCacheKey(Target, Method)
        t == TryRouteCached(r, CacheKey, Method, Data)
    IN  IF t.ret
        THEN [t EXCEPT !.Statistics.MessagesRouted = @ + 1, !.ret = TRUE]
        ELSE IF t.bQueueUnknownTargets
        THEN [QueueMessage(t, Target, Method, Data) EXCEPT !.ret = TRUE]
        ELSE [t EXCEPT !.Statistics.MessagesDropped = @ + 1, !.ret = FALSE]

\* RouteMessage that queues an unknown target whatever bQueueUnknownTargets is
RouteMessage_AlwaysQueue(r, Target, Method, Data) ==
    LET CacheKey == GetCacheKey(Target, Method)
        t == TryRouteCached(r, CacheKey, Method, Data)
    IN  IF t.ret
        THEN [t EXCEPT !.Statistics.MessagesRouted = @ + 1, !.ret = TRUE]
        ELSE IF Contains(t.Targets, Target)
        THEN [t EXCEPT !.Statistics.MessagesDropped = @ + 1, !.ret = FALSE]
        ELSE [QueueMessage(t, Target, Method, Data) EXCEPT !.ret = TRUE]

RouteMessage(r, Target, Method, Data) ==
    LET CacheKey == GetCacheKey(Target, Method)
        t == TryRouteCached(r, CacheKey, Method, Data)
    IN  IF t.ret
        THEN [t EXCEPT !.Statistics.MessagesRouted = @ + 1, !.ret = TRUE]
        ELSE IF Contains(t.Targets, Target)
        THEN [t EXCEPT !.Statistics.MessagesDropped = @ + 1, !.ret = FALSE]
        ELSE IF t.bQueueUnknownTargets
        THEN [QueueMessage(t, Target, Method, Data) EXCEPT !.ret = TRUE]
        ELSE [t EXCEPT !.Statistics.MessagesDropped = @ + 1, !.ret = FALSE]

RouteBinaryMessage(r, Target, Method, Data) ==
    LET CacheKey == GetCacheKey(Target, Method)
        t == TryRouteBinaryCached(r, CacheKey, Method, Data)
    IN  IF t.ret
        THEN [t EXCEPT !.Statistics.MessagesRouted = @ + 1, !.ret = TRUE]
        ELSE IF Contains(t.Targets, Target)
        THEN [t EXCEPT !.Statistics.MessagesDropped = @ + 1, !.ret = FALSE]
        ELSE IF t.bQueueUnknownTargets
        THEN IF Len(t.MessageQueue) < t.MaxQueueSize
             THEN LET q2 == Append(t.MessageQueue, BinaryMessage(Target, Method, Data))
                  IN  [t EXCEPT !.MessageQueue = q2,
                                !.Statistics.QueuedMessages = Len(q2),
                                !.ret = TRUE]
             ELSE [t EXCEPT !.Statistics.MessagesDropped = @ + 1, !.ret = TRUE]
        ELSE [t EXCEPT !.Statistics.MessagesDropped = @ + 1, !.ret = FALSE]

-----------------------------------------------------------------------------
(* Queue flush *)

RECURSIVE FlushLoop(_, _)
\* the for loop of FlushQueue over MessagesToProcess
FlushLoop(r, MessagesToProcess) ==
    IF MessagesToProcess = <<>>
    THEN r
    ELSE LET Msg == Head(MessagesToProcess)
             t == IF Msg.bIsBinary
                  THEN RouteBinaryMessage(r, Msg.Target, Msg.Method, Msg.BinaryData)
                  ELSE RouteMessage(r, Msg.Target, Msg.Method, Msg.Data)
             \* Re-queue if still no handler
             u == IF /\ ~t.ret
                     /\ t.bQueueUnknownTargets
                     /\ ~Contains(t.Targets, Msg.Target)
                  THEN [t EXCEPT !.MessageQueue = Append(@, Msg)]
                  ELSE t
         IN  FlushLoop(u, Tail(MessagesToProcess))

\* FlushQueue without MessageQueue.Empty() after the snapshot
FlushQueue_NoEmpty(r) ==
    IF Len(r.MessageQueue) = 0
    THEN r
    ELSE LET t == FlushLoop(r, r.MessageQueue)
         IN  [t EXCEPT !.Statistics.QueuedMessages = Len(t.MessageQueue)]

FlushQueue(r) ==
    IF Len(r.MessageQueue) = 0
    THEN r
    ELSE LET t == FlushLoop([r EXCEPT !.MessageQueue = <<>>], r.MessageQueue)
         IN  [t EXCEPT !.Statistics.QueuedMessages = Len(t.MessageQueue)]

\* ClearQueue that only resets the count of queued messages
ClearQueue_CountOnly(r) == [r EXCEPT !.Statistics.QueuedMessages = 0]

ClearQueue(r) ==
    [r EXCEPT !.MessageQueue = <<>>, !.Statistics.QueuedMessages = 0]

-----------------------------------------------------------------------------
(* Target and method registration *)

\* RegisterTarget flushing the queue before it returns from a rejection
RegisterTarget_FlushOnReject(r, Name, Target, bIsSingleton) ==
    IF Target = nullptr
    THEN FlushQueue(r)
    ELSE IF bIsSingleton /\ Contains(r.Targets, Name)
    THEN FlushQueue(r)
    ELSE LET t == [r EXCEPT !.Targets = MapAdd(@, Name, Target),
                            !.SingletonFlags = MapAdd(@, Name, bIsSingleton)]
             u == [t EXCEPT !.Statistics.RegisteredTargets = Cardinality(DOMAIN t.Targets)]
         IN  FlushQueue(u)

\* RegisterTarget without the FlushQueue() call that ends it
RegisterTarget_NoFlush(r, Name, Target, bIsSingleton) ==
    IF Target = nullptr
    THEN r
    ELSE IF bIsSingleton /\ Contains(r.Targets, Name)
    THEN r
    ELSE LET t == [r EXCEPT !.Targets = MapAdd(@, Name, Target),
                            !.SingletonFlags = MapAdd(@, Name, bIsSingleton)]
         IN  [t EXCEPT !.Statistics.RegisteredTargets = Cardinality(DOMAIN t.Targets)]

RegisterTarget(r, Name, Target, bIsSingleton) ==
    IF Target = nullptr
    THEN r
    ELSE IF bIsSingleton /\ Contains(r.Targets, Name)
    THEN r
    ELSE LET t == [r EXCEPT !.Targets = MapAdd(@, Name, Target),
                            !.SingletonFlags = MapAdd(@, Name, bIsSingleton)]
             u == [t EXCEPT !.Statistics.RegisteredTargets = Cardinality(DOMAIN t.Targets)]
         IN  FlushQueue(u)

\* the keys UnregisterTarget collects in KeysToRemove
KeysToRemove(Map, Name) == {Key \in DOMAIN Map : StartsWith(Key, Name \o ":")}

\* UnregisterTarget without the removal of the cached delegates
UnregisterTarget_KeepHandlers(r, Name) ==
    IF Contains(r.Targets, Name)
    THEN LET t == [r EXCEPT
                     !.Targets = MapRemove(@, {Name}),
                     !.SingletonFlags = MapRemove(@, {Name})]
         IN  [t EXCEPT !.Statistics.RegisteredTargets = Cardinality(DOMAIN t.Targets)]
    ELSE r

\* UnregisterTarget without the second loop, over the binary delegates
UnregisterTarget_KeepBinary(r, Name) ==
    IF Contains(r.Targets, Name)
    THEN LET t == [r EXCEPT
                     !.Targets = MapRemove(@, {Name}),
                     !.SingletonFlags = MapRemove(@, {Name}),
                     !.CachedDelegates = MapRemove(@, KeysToRemove(@, Name))]
         IN  [t EXCEPT !.Statistics.RegisteredTargets = Cardinality(DOMAIN t.Targets),
                       !.Statistics.CachedDelegates =
                           Cardinality(DOMAIN t.CachedDelegates)
                           + Cardinality(DOMAIN t.CachedBinaryDelegates)]
    ELSE r

UnregisterTarget(r, Name) ==
    IF Contains(r.Targets, Name)
    THEN LET t == [r EXCEPT
                     !.Targets = MapRemove(@, {Name}),
                     !.SingletonFlags = MapRemove(@, {Name}),
                     !.CachedDelegates = MapRemove(@, KeysToRemove(@, Name)),
                     !.CachedBinaryDelegates = MapRemove(@, KeysToRemove(@, Name))]
         IN  [t EXCEPT !.Statistics.RegisteredTargets = Cardinality(DOMAIN t.Targets),
                       !.Statistics.CachedDelegates =
                           Cardinality(DOMAIN t.CachedDelegates)
                           + Cardinality(DOMAIN t.CachedBinaryDelegates)]
    ELSE r

IsTargetRegistered(r, Name) == Contains(r.Targets, Name)

\* RegisterMethod that keeps the delegate a key already has
RegisterMethod_KeepFirst(r, TargetName, MethodName, Delegate) ==
    LET CacheKey == GetCacheKey(TargetName, MethodName)
        t == IF Contains(r.CachedDelegates, CacheKey)
             THEN r
             ELSE [r EXCEPT !.CachedDelegates = MapAdd(@, CacheKey, Delegate)]
    IN  [t EXCEPT !.Statistics.CachedDelegates =
                      Cardinality(DOMAIN t.CachedDelegates)
                      + Cardinality(DOMAIN t.CachedBinaryDelegates)]

RegisterMethod(r, TargetName, MethodName, Delegate) ==
    LET t == [r EXCEPT !.CachedDelegates =
                           MapAdd(@, GetCacheKey(TargetName, MethodName), Delegate)]
    IN  [t EXCEPT !.Statistics.CachedDelegates =
                      Cardinality(DOMAIN t.CachedDelegates)
                      + Cardinality(DOMAIN t.CachedBinaryDelegates)]

\* RegisterBinaryMethod counting the text handlers only
RegisterBinaryMethod_TextCount(r, TargetName, MethodName, Delegate) ==
    LET t == [r EXCEPT !.CachedBinaryDelegates =
                           MapAdd(@, GetCacheKey(TargetName, MethodName), Delegate)]
    IN  [t EXCEPT !.Statistics.CachedDelegates = Cardinality(DOMAIN t.CachedDelegates)]

RegisterBinaryMethod(r, TargetName, MethodName, Delegate) ==
    LET t == [r EXCEPT !.CachedBinaryDelegates =
                           MapAdd(@, GetCacheKey(TargetName, MethodName), Delegate)]
    IN  [t EXCEPT !.Statistics.CachedDelegates =
                      Cardinality(DOMAIN t.CachedDelegates)
                      + Cardinality(DOMAIN t.CachedBinaryDelegates)]

UnregisterMethod(r, TargetName, MethodName) ==
    LET CacheKey == GetCacheKey(TargetName, MethodName)
        t == [r EXCEPT !.CachedDelegates = MapRemove(@, {CacheKey}),
                       !.CachedBinaryDelegates = MapRemove(@, {CacheKey})]
    IN  [t EXCEPT !.Statistics.CachedDelegates =
                      Cardinality(DOMAIN t.CachedDelegates)
                      + Cardinality(DOMAIN t.CachedBinaryDelegates)]

-----------------------------------------------------------------------------
(* Statistics and configuration *)

ResetStatistics(r) ==
    [r EXCEPT !.Statistics =
        [MessagesRouted |-> 0,
         MessagesDropped |-> 0,
         RegisteredTargets |-> Cardinality(DOMAIN r.Targets),
         CachedDelegates |-> Cardinality(DOMAIN r.CachedDelegates)
                             + Cardinality(DOMAIN r.CachedBinaryDelegates),
         QueuedMessages |-> Len(r.MessageQueue)]]

SetQueueUnknownTargets(r, bEnable) == [r EXCEPT !.bQueueUnknownTargets = bEnable]

RECURSIVE TrimQueue(_, _)
\* while (MessageQueue.Num() > MaxQueueSize) MessageQueue.RemoveAt(0)
TrimQueue(Queue, Size) ==
    IF Len(Queue) > Size THEN TrimQueue(Tail(Queue), Size) ELSE Queue

\* SetMaxQueueSize without FMath::Max(1, Size)
SetMaxQueueSize_NoClamp(r, Size) ==
    LET t == [r EXCEPT !.MaxQueueSize = Size]
        q == TrimQueue(t.MessageQueue, Max(0, t.MaxQueueSize))
    IN  [t EXCEPT !.MessageQueue = q, !.Statistics.QueuedMessages = Len(q)]

SetMaxQueueSize(r, Size) ==
    LET t == [r EXCEPT !.MaxQueueSize = Max(1, Size)]
        q == TrimQueue(t.MessageQueue, t.MaxQueueSize)
    IN  [t EXCEPT !.MessageQueue = q, !.Statistics.QueuedMessages = Len(q)]

-----------------------------------------------------------------------------
(* AFlutterGameMode as an owner that registers with the router *)

\* AFlutterGameMode::InitializeFlutter, the router part: RegisterTarget, then
\* RegisterMethod for playerAction, requestState and setLevel
InitializeFlutter(r) ==
    LET t0 == RegisterTarget(r, FlutterTargetName, GameModeObject, TRUE)
        t1 == RegisterMethod(t0, FlutterTargetName, "playerAction", HandleFlutterMessage)
        t2 == RegisterMethod(t1, FlutterTargetName, "requestState", HandleFlutterMessage)
    IN  RegisterMethod(t2, FlutterTargetName, "setLevel", HandleFlutterMessage)

\* AFlutterGameMode::EndPlay, the router part
EndPlay(r) == UnregisterTarget(r, FlutterTargetName)

-----------------------------------------------------------------------------
(* The state machine: one action per public method *)

\* the record kept in last: the method called, its arguments (those it does
\* not take at their defaults), its return value, its delegate executions and
\* the length of the queue when it was called
Call(op, Target, Method, Data, Bytes, Object, Flag, Size) ==
    [op |-> op, Target |-> Target, Method |-> Method, Data |-> Data,
     BinaryData |-> Bytes, Object |-> Object, Flag |-> Flag, Size |-> Size,
     ret |-> FALSE, calls |-> <<>>, QueuedBefore |-> 0]

NoCall == Call("Init", EmptyString, EmptyString, EmptyString, EmptyBytes,
               nullptr, FALSE, 0)

\* The scenario monitor follows a run through the calls of the eviction-
\* then-flush scenario: RouteMessage to "A", to "B", to "C" from a state with
\* MaxQueueSize = 2, an empty queue, queuing enabled and none of the three
\* registered (phases 1, 2, 3), RegisterTarget("A") (4), RegisterTarget("B")
\* (5).  RegisterMethod calls may come in between; any other call ends the
\* scenario.  msgs are the three messages; hb says that a bound handler was
\* cached for the second when RegisterTarget("B") was called; queuedB says
\* that none was cached for the second when it was routed, cleanB that none
\* was cached for it then and when RegisterTarget("A") was called; cleanC
\* says that none was cached for the third when it was routed and when either
\* target was registered.
ScenIdle(armed) ==
    [armed |-> armed, phase |-> 0, queuedB |-> TRUE, cleanB |-> TRUE,
     cleanC |-> TRUE, hb |-> FALSE, msgs |-> <<>>]

ScenHandler(Msg) ==
    /\ Contains(CachedDelegates, GetCacheKey(Msg.Target, Msg.Method))
    /\ IsBound(CachedDelegates[GetCacheKey(Msg.Target, Msg.Method)])

ScenStart(c) ==
    /\ c.op = "RouteMessage" /\ c.Target = "A"
    /\ MaxQueueSize = 2
    /\ MessageQueue = <<>>
    /\ bQueueUnknownTargets
    /\ (DOMAIN Targets) \cap {"A", "B", "C"} = {}

ScenNext(c, r) ==
    LET Msg == TextMessage(c.Target, c.Method, c.Data)
        Routes(T) == c.op = "RouteMessage" /\ c.Target = T
        Registers(T) == c.op = "RegisterTarget" /\ c.Target = T /\ c.Object # nullptr
    IN  IF ~scen.armed THEN scen
        ELSE IF scen.phase = 1 /\ Routes("B")
        THEN [scen EXCEPT !.phase = 2, !.msgs = Append(@, Msg),
                          !.queuedB = ~ScenHandler(Msg),
                          !.cleanB = @ /\ ~ScenHandler(Msg)]
        ELSE IF scen.phase = 2 /\ Routes("C")
        THEN [scen EXCEPT !.phase = 3, !.msgs = Append(@, Msg),
                          !.cleanC = @ /\ ~ScenHandler(Msg)]
        ELSE IF scen.phase = 3 /\ Registers("A")
        THEN [scen EXCEPT !.phase = 4,
                          !.cleanB = @ /\ ~ScenHandler(scen.msgs[2]),
                          !.cleanC = @ /\ ~ScenHandler(scen.msgs[3])]
        ELSE IF scen.phase = 4 /\ Registers("B")
        THEN [scen EXCEPT !.phase = 5,
                          !.hb = ScenHandler(scen.msgs[2]),
                          !.cleanC = @ /\ ~ScenHandler(scen.msgs[3])]
        ELSE IF scen.phase \in 1..4 /\ c.op \in {"RegisterMethod", "RegisterBinaryMethod"}
        THEN scen
        ELSE IF ScenStart(c)
        THEN [ScenIdle(TRUE) EXCEPT !.phase = 1, !.msgs = <<Msg>>]
        ELSE ScenIdle(TRUE)

\* the record of the calls of a run: not kept, or kept and empty
HistOff == [on |-> FALSE, calls |-> <<>>]
HistOn == [on |-> TRUE, calls |-> <<>>]

\* the router's variables after a call c that took the router to r
ApplyRouter(c, r) ==
    /\ budget > 0
    /\ budget' = budget - 1
    /\ Targets' = r.Targets
    /\ SingletonFlags' = r.SingletonFlags
    /\ CachedDelegates' = r.CachedDelegates
    /\ CachedBinaryDelegates' = r.CachedBinaryDelegates
    /\ MessageQueue' = r.MessageQueue
    /\ bQueueUnknownTargets' = r.bQueueUnknownTargets
    /\ MaxQueueSize' = r.MaxQueueSize
    /\ Statistics' = r.Statistics
    /\ last' = [c EXCEPT !.ret = r.ret, !.calls = r.calls,
                          !.QueuedBefore = Len(MessageQueue)]
    /\ scen' = ScenNext(c, r)
    /\ hist' = IF hist.on
               THEN [hist EXCEPT !.calls =
                        Append(@, [c EXCEPT !.ret = r.ret, !.calls = r.calls,
                                            !.QueuedBefore = Len(MessageQueue)])]
               ELSE hist

\* the variables after a call c of a router method that took the router to r
Apply(c, r) ==
    /\ ApplyRouter(c, r)
    /\ UNCHANGED otherVars
    /\ UNCHANGED <<bHasBegunPlay, bIsRegistered, ActiveTransfers,
                   bIsRegisteredSecond, QualityLevels>>

\* UFlutterMessageRouter::UFlutterMessageRouter()
\* the objects of the plugin after construction
InitObjects ==
    /\ Targets = EmptyMap
    /\ SingletonFlags = EmptyMap
    /\ CachedDelegates = EmptyMap
    /\ CachedBinaryDelegates = EmptyMap
    /\ MessageQueue = <<>>
    /\ bQueueUnknownTargets = TRUE
    /\ MaxQueueSize = DefaultMaxQueueSize
    /\ Statistics = NewStatistics
    /\ bHasBegunPlay = FALSE
    /\ bIsRegistered = FALSE
    /\ ActiveTransfers = EmptyMap
    /\ bIsRegisteredSecond = FALSE
    /\ Instance = nullptr
    /\ GFlutterBridgeInstance = nullptr
    /\ BridgeActors = [b \in BridgeObjects |-> NewBridgeActor]
    /\ LoadedAssets = EmptyMap
    /\ PendingLoads = {}
    /\ AssetStatistics = NewAssetStatistics
    /\ CacheMaxSizeBytes = DefaultCacheMaxSizeBytes
    /\ bIsGameRunning = FALSE
    /\ bIsGamePaused = FALSE
    /\ CurrentScore = 0
    /\ CurrentLevel = 1
    /\ FlutterBridge = nullptr
    /\ last = NoCall

\* the objects after construction in an engine at its default quality
InitRouter ==
    /\ InitObjects
    /\ QualityLevels = SingleQualityLevel(DefaultQualityLevel)

Init ==
    /\ InitRouter
    /\ budget = MaxSteps
    /\ scen = ScenIdle(FALSE)
    /\ hist = HistOff

DoRegisterTarget(Name, Target, bIsSingleton) ==
    Apply(Call("RegisterTarget", Name, EmptyString, EmptyString, EmptyBytes,
               Target, bIsSingleton, 0),
          RegisterTarget(Router, Name, Target, bIsSingleton))

DoUnregisterTarget(Name) ==
    Apply(Call("UnregisterTarget", Name, EmptyString, EmptyString, EmptyBytes,
               nullptr, FALSE, 0),
          UnregisterTarget(Router, Name))

DoRegisterMethod(TargetName, MethodName, Delegate) ==
    Apply(Call("RegisterMethod", TargetName, MethodName, EmptyString, EmptyBytes,
               Delegate, FALSE, 0),
          RegisterMethod(Router, TargetName, MethodName, Delegate))

DoRegisterBinaryMethod(TargetName, MethodName, Delegate) ==
    Apply(Call("RegisterBinaryMethod", TargetName, MethodName, EmptyString,
               EmptyBytes, Delegate, FALSE, 0),
          RegisterBinaryMethod(Router, TargetName, MethodName, Delegate))

DoUnregisterMethod(TargetName, MethodName) ==
    Apply(Call("UnregisterMethod", TargetName, MethodName, EmptyString,
               EmptyBytes, nullptr, FALSE, 0),
          UnregisterMethod(Router, TargetName, MethodName))

DoRouteMessage(Target, Method, Data) ==
    Apply(Call("RouteMessage", Target, Method, Data, EmptyBytes, nullptr, FALSE, 0),
          RouteMessage(Router, Target, Method, Data))

DoRouteBinaryMessage(Target, Method, Data) ==
    Apply(Call("RouteBinaryMessage", Target, Method, EmptyString, Data,
               nullptr, FALSE, 0),
          RouteBinaryMessage(Router, Target, Method, Data))

DoQueueMessage(Target, Method, Data) ==
    Apply(Call("QueueMessage", Target, Method, Data, EmptyBytes, nullptr, FALSE, 0),
          QueueMessage(Router, Target, Method, Data))

DoFlushQueue ==
    Apply(Call("FlushQueue", EmptyString, EmptyString, EmptyString, EmptyBytes,
               nullptr, FALSE, 0),
          FlushQueue(Router))

DoClearQueue ==
    Apply(Call("ClearQueue", EmptyString, EmptyString, EmptyString, EmptyBytes,
               nullptr, FALSE, 0),
          ClearQueue(Router))

DoResetStatistics ==
    Apply(Call("ResetStatistics", EmptyString, EmptyString, EmptyString,
               EmptyBytes, nullptr, FALSE, 0),
          ResetStatistics(Router))

DoSetQueueUnknownTargets(bEnable) ==
    Apply(Call("SetQueueUnknownTargets", EmptyString, EmptyString, EmptyString,
               EmptyBytes, nullptr, bEnable, 0),
          SetQueueUnknownTargets(Router, bEnable))

DoSetMaxQueueSize(Size) ==
    Apply(Call("SetMaxQueueSize", EmptyString, EmptyString, EmptyString,
               EmptyBytes, nullptr, FALSE, Size),
          SetMaxQueueSize(Router, Size))

\* the bridge statics and actors as a record; to is the actor the last
\* platform call was dispatched to (nullptr: none), ended says that this
\* actor's EndPlay had run, calls are the Blueprint events fired
BridgeStatics ==
    [Instance |-> Instance,
     GFlutterBridgeInstance |-> GFlutterBridgeInstance,
     Actors |-> BridgeActors,
     QualityLevels |-> QualityLevels,
     to |-> nullptr, ended |-> FALSE, calls |-> <<>>]

\* the bridge actors GetAllActorsOfClass can find: those in the world,
\* which an actor leaves with its EndPlay
WorldActors(s) == {b \in BridgeObjects : s.Actors[b].Phase # "Ended"}

\* AFlutterBridge::GetInstance; First is FoundActors[0], nullptr when there
\* is no world context or no bridge actor in the world
GetInstance(s, First) ==
    IF s.Instance # nullptr
    THEN s
    ELSE IF First # nullptr
    THEN [s EXCEPT !.Instance = First]
    ELSE s

\* AFlutterGameMode::BeginPlay: InitializeFlutter(), which first takes the
\* bridge from AFlutterBridge::GetInstance(this); the game mode is in a
\* world, so that the lookup finds a bridge actor when the world has one
DoBeginPlay ==
    /\ ~bHasBegunPlay
    /\ bHasBegunPlay' = TRUE
    /\ \E First \in BridgeObjects \cup {nullptr} :
          /\ IF WorldActors(BridgeStatics) = {}
             THEN First = nullptr
             ELSE First \in WorldActors(BridgeStatics)
          /\ Instance' = GetInstance(BridgeStatics, First).Instance
          /\ FlutterBridge' = GetInstance(BridgeStatics, First).Instance
    /\ UNCHANGED <<GFlutterBridgeInstance, BridgeActors, assetVars,
                   gameStateVars>>
    /\ UNCHANGED <<bIsRegistered, ActiveTransfers, bIsRegisteredSecond,
                   QualityLevels>>
    /\ ApplyRouter(Call("BeginPlay", FlutterTargetName, EmptyString, EmptyString,
                        EmptyBytes, GameModeObject, TRUE, 0),
                   InitializeFlutter(Router))

\* AFlutterGameMode::EndPlay
DoEndPlay ==
    /\ bHasBegunPlay
    /\ bHasBegunPlay' = FALSE
    /\ UNCHANGED otherVars
    /\ UNCHANGED <<bIsRegistered, ActiveTransfers, bIsRegisteredSecond,
                   QualityLevels>>
    /\ ApplyRouter(Call("EndPlay", FlutterTargetName, EmptyString, EmptyString,
                        EmptyBytes, GameModeObject, FALSE, 0),
                   EndPlay(Router))

Next ==
    \/ \E Name \in TargetNames, Target \in Objects \cup {nullptr},
          bIsSingleton \in BOOLEAN :
            DoRegisterTarget(Name, Target, bIsSingleton)
    \/ \E Name \in TargetNames : DoUnregisterTarget(Name)
    \/ \E T \in TargetNames, M \in MethodNames, D \in TextDelegates :
            DoRegisterMethod(T, M, D)
    \/ \E T \in TargetNames, M \in MethodNames, D \in BinaryDelegates :
            DoRegisterBinaryMethod(T, M, D)
    \/ \E T \in TargetNames, M \in MethodNames : DoUnregisterMethod(T, M)
    \/ \E T \in TargetNames, M \in MethodNames, D \in TextData :
            DoRouteMessage(T, M, D)
    \/ \E T \in TargetNames, M \in MethodNames, D \in BinaryData :
            DoRouteBinaryMessage(T, M, D)
    \/ \E T \in TargetNames, M \in MethodNames, D \in TextData :
            DoQueueMessage(T, M, D)
    \/ DoFlushQueue
    \/ DoClearQueue
    \/ DoResetStatistics
    \/ \E bEnable \in BOOLEAN : DoSetQueueUnknownTargets(bEnable)
    \/ \E Size \in QueueSizes : DoSetMaxQueueSize(Size)

Spec == Init /\ [][Next]_vars

-----------------------------------------------------------------------------
(* Properties of RouteMessage *)

\* a bound delegate is cached under CacheKey in the text cache
HasHandler(CacheKey) ==
    /\ Contains(CachedDelegates, CacheKey)
    /\ IsBound(CachedDelegates[CacheKey])

\* a bound delegate is cached under CacheKey in the binary cache
HasBinaryHandler(CacheKey) ==
    /\ Contains(CachedBinaryDelegates, CacheKey)
    /\ IsBound(CachedBinaryDelegates[CacheKey])

\* the step is a call of RouteMessage
IsRouteMessage == last'.op = "RouteMessage"

\* the cache key of the call the step makes
CallKey == GetCacheKey(last'.Target, last'.Method)

\* C1 (handler precedence): a RouteMessage(T, M, data) call made when T is
\* registered and a bound text handler is cached for (T, M) executes that
\* handler exactly once with (M, data), returns true, adds one to
\* MessagesRouted and leaves the queue as it was, with queuing on or off.
C1_HandlerPrecedence ==
    [][(IsRouteMessage /\ Contains(Targets, last'.Target) /\ HasHandler(CallKey))
       => /\ last'.calls = <<Execute(CachedDelegates[CallKey], last'.Method,
                                     last'.Data, FALSE, EmptyBytes)>>
          /\ last'.ret = TRUE
          /\ Statistics'.MessagesRouted = Statistics.MessagesRouted + 1
          /\ Statistics'.MessagesDropped = Statistics.MessagesDropped
          /\ MessageQueue' = MessageQueue]_vars

\* C1 witness: a handler was executed for a registered target while queuing
\* was disabled
C1_Witness ==
    /\ last.op = "RouteMessage"
    /\ Contains(Targets, last.Target)
    /\ HasHandler(GetCacheKey(last.Target, last.Method))
    /\ Len(last.calls) = 1
    /\ ~bQueueUnknownTargets

\* C2 (hard miss): a RouteMessage(T, M, data) call made when T is registered
\* and no bound handler is cached for (T, M) returns false, adds one to
\* MessagesDropped, executes no handler and leaves the queue as it was, so
\* that no later flush finds the message.
C2_HardMissNotQueued ==
    [][(IsRouteMessage /\ Contains(Targets, last'.Target) /\ ~HasHandler(CallKey))
       => /\ last'.calls = <<>>
          /\ last'.ret = FALSE
          /\ Statistics'.MessagesDropped = Statistics.MessagesDropped + 1
          /\ Statistics'.MessagesRouted = Statistics.MessagesRouted
          /\ MessageQueue' = MessageQueue]_vars

\* C2 witness: a hard miss happened with queuing enabled
C2_Witness ==
    /\ last.op = "RouteMessage"
    /\ Contains(Targets, last.Target)
    /\ ~HasHandler(GetCacheKey(last.Target, last.Method))
    /\ bQueueUnknownTargets
    /\ last.ret = FALSE
    /\ Statistics.MessagesDropped = 1

\* C3 (soft miss): a RouteMessage call for a target that is not registered and
\* has no bound handler cached for the key, with queuing enabled, puts the
\* message at the tail of the queue, returns true, executes no handler and
\* leaves MessagesRouted and MessagesDropped alone; with queuing disabled it
\* returns false, adds one to MessagesDropped and leaves the queue alone.
C3_SoftMiss ==
    [][(IsRouteMessage /\ ~Contains(Targets, last'.Target) /\ ~HasHandler(CallKey))
       => /\ last'.calls = <<>>
          /\ Statistics'.MessagesRouted = Statistics.MessagesRouted
          /\ IF bQueueUnknownTargets
             THEN /\ last'.ret = TRUE
                  /\ Len(MessageQueue') > 0
                  /\ MessageQueue'[Len(MessageQueue')] =
                         TextMessage(last'.Target, last'.Method, last'.Data)
                  /\ \/ SubSeq(MessageQueue', 1, Len(MessageQueue') - 1) = MessageQueue
                     \/ SubSeq(MessageQueue', 1, Len(MessageQueue') - 1) = Tail(MessageQueue)
                  /\ Statistics'.MessagesDropped = Statistics.MessagesDropped
             ELSE /\ last'.ret = FALSE
                  /\ MessageQueue' = MessageQueue
                  /\ Statistics'.MessagesDropped = Statistics.MessagesDropped + 1]_vars

\* C3 witness: a soft miss was queued behind an earlier message
C3_Witness ==
    /\ last.op = "RouteMessage"
    /\ ~Contains(Targets, last.Target)
    /\ last.ret = TRUE
    /\ last.calls = <<>>
    /\ last.QueuedBefore = 1
    /\ Len(MessageQueue) = 2
    /\ MessageQueue[2] = TextMessage(last.Target, last.Method, last.Data)

\* C3 witness of the other half: a soft miss was dropped with queuing disabled
C3_WitnessDisabled ==
    /\ last.op = "RouteMessage"
    /\ ~Contains(Targets, last.Target)
    /\ ~bQueueUnknownTargets
    /\ last.ret = FALSE
    /\ Statistics.MessagesDropped = 1

\* the step puts a text message into the queue through QueueMessage: a direct
\* call, or a soft miss of RouteMessage with queuing enabled
IsEnqueue ==
    \/ last'.op = "QueueMessage"
    \/ /\ IsRouteMessage
       /\ ~Contains(Targets, last'.Target)
       /\ ~HasHandler(CallKey)
       /\ bQueueUnknownTargets

\* C4 (drop-oldest): a message put through QueueMessage into a queue that
\* holds MaxQueueSize entries evicts the entry at the head and is admitted at
\* the tail; put into a queue with room it is appended.  By induction N+1
\* messages put into an empty queue of capacity N leave the N most recent in
\* arrival order.
C4_DropOldest ==
    [][IsEnqueue
       => MessageQueue' =
            IF Len(MessageQueue) = MaxQueueSize
            THEN Append(Tail(MessageQueue),
                        TextMessage(last'.Target, last'.Method, last'.Data))
            ELSE Append(MessageQueue,
                        TextMessage(last'.Target, last'.Method, last'.Data))]_vars

\* C4 witness: capacity 2, a third message arrived at a full queue and the
\* queue holds two messages again
C4_Witness ==
    /\ last.op \in {"QueueMessage", "RouteMessage"}
    /\ MaxQueueSize = 2
    /\ last.QueuedBefore = 2
    /\ Len(MessageQueue) = 2
    /\ MessageQueue[2] = TextMessage(last.Target, last.Method, last.Data)
    /\ MessageQueue[1] # MessageQueue[2]

-----------------------------------------------------------------------------
(* RouteBinaryMessage against RouteMessage *)

\* the router with the binary cache's keys in the text cache: the state from
\* which RouteMessage meets what RouteBinaryMessage meets in the current one
Corresponding ==
    [Router EXCEPT !.CachedDelegates = CachedBinaryDelegates]

\* C5 (same three-way policy): a RouteBinaryMessage call and a RouteMessage
\* call from the corresponding state return the same value, execute a handler
\* or not alike, change MessagesRouted and MessagesDropped alike and leave the
\* same queue, the new message at the tail and the oldest entry evicted when
\* the queue was full.
C5_BinarySamePolicy ==
    [][last'.op = "RouteBinaryMessage"
       => \A Data \in TextData :
            LET t == RouteMessage(Corresponding, last'.Target, last'.Method, Data)
                Queued == t.ret /\ t.calls = <<>>
            IN  /\ last'.ret = t.ret
                /\ Len(last'.calls) = Len(t.calls)
                /\ Statistics'.MessagesRouted = t.Statistics.MessagesRouted
                /\ Statistics'.MessagesDropped = t.Statistics.MessagesDropped
                /\ Len(MessageQueue') = Len(t.MessageQueue)
                /\ \A i \in 1..Len(t.MessageQueue) :
                     IF Queued /\ i = Len(t.MessageQueue)
                     THEN MessageQueue'[i] =
                            BinaryMessage(last'.Target, last'.Method, last'.BinaryData)
                     ELSE MessageQueue'[i] = t.MessageQueue[i]]_vars

-----------------------------------------------------------------------------
(* The queue bound *)

\* C6 (queue bound): in every reachable state the queue holds at most
\* MaxQueueSize messages and MaxQueueSize is at least 1; it starts at 1000.
C6_QueueBound ==
    /\ Len(MessageQueue) <= MaxQueueSize
    /\ MaxQueueSize >= 1
    /\ (last.op = "Init" => MaxQueueSize = DefaultMaxQueueSize)

\* C6 witness: a message arrived at a queue that was at its limit, and the
\* queue is at its limit
C6_Witness ==
    /\ last.op \in {"RouteMessage", "RouteBinaryMessage", "QueueMessage"}
    /\ last.QueuedBefore = MaxQueueSize
    /\ Len(MessageQueue) = MaxQueueSize
    /\ ~Contains(Targets, last.Target)

-----------------------------------------------------------------------------
(* Singleton targets *)

\* C10 (singleton invariant): while a name is occupied by a target registered
\* with bIsSingleton = true, every call other than UnregisterTarget of that
\* name, and in particular every RegisterTarget on it with whatever object and
\* flag, leaves the name registered with the same object.
C10_SingletonKept ==
    [][\A Name \in DOMAIN Targets :
         (/\ SingletonFlags[Name]
          /\ ~(last'.op = "UnregisterTarget" /\ last'.Target = Name))
         => /\ Contains(Targets', Name)
            /\ Targets'[Name] = Targets[Name]]_vars

-----------------------------------------------------------------------------
(* FlushQueue *)

\* Runs of SpecFlush: messages are routed and queued, handlers and targets
\* are registered, the queue is flushed by RegisterTarget and by FlushQueue;
\* queuing stays enabled.
InitFlush ==
    /\ InitRouter
    /\ budget = MaxFlushSteps
    /\ scen = ScenIdle(FALSE)
    /\ hist = HistOff

NextFlush ==
    \/ \E T \in TargetNames, M \in MethodNames, D \in TextData :
            DoRouteMessage(T, M, D)
    \/ \E T \in TargetNames, M \in MethodNames, D \in BinaryData :
            DoRouteBinaryMessage(T, M, D)
    \/ \E T \in TargetNames, M \in MethodNames :
            DoRegisterMethod(T, M, "h1")
    \/ \E M \in MethodNames : DoRegisterBinaryMethod("B", M, "bh1")
    \/ \E Name \in TargetNames : DoRegisterTarget(Name, "o1", TRUE)
    \/ \E M \in MethodNames, D \in TextData : DoQueueMessage("A", M, D)
    \/ DoFlushQueue

SpecFlush == InitFlush /\ [][NextFlush]_vars

\* the step flushes the queue: FlushQueue is called, or RegisterTarget
\* accepts the registration and calls it
IsFlush ==
    \/ last'.op = "FlushQueue"
    \/ /\ last'.op = "RegisterTarget"
       /\ last'.Object # nullptr
       /\ ~(last'.Flag /\ Contains(Targets, last'.Target))

\* during the flush of a step (targets and caches are those after the step,
\* FlushQueue changes neither): Msg has a bound handler in its cache
Deliverable(Msg) ==
    IF Msg.bIsBinary
    THEN /\ Contains(CachedBinaryDelegates', GetCacheKey(Msg.Target, Msg.Method))
         /\ IsBound(CachedBinaryDelegates'[GetCacheKey(Msg.Target, Msg.Method)])
    ELSE /\ Contains(CachedDelegates', GetCacheKey(Msg.Target, Msg.Method))
         /\ IsBound(CachedDelegates'[GetCacheKey(Msg.Target, Msg.Method)])

\* the delegate execution that delivers Msg
Delivery(Msg) ==
    IF Msg.bIsBinary
    THEN Execute(CachedBinaryDelegates'[GetCacheKey(Msg.Target, Msg.Method)],
                 Msg.Method, EmptyString, TRUE, Msg.BinaryData)
    ELSE Execute(CachedDelegates'[GetCacheKey(Msg.Target, Msg.Method)],
                 Msg.Method, Msg.Data, FALSE, EmptyBytes)

HardMissed(Msg) == ~Deliverable(Msg) /\ Contains(Targets', Msg.Target)

TargetUnknown(Msg) == ~Contains(Targets', Msg.Target)

StillWaiting(Msg) == ~Deliverable(Msg) /\ ~Contains(Targets', Msg.Target)

\* what a flush does to the entries that have a handler and to those of a
\* registered target without one: the first are delivered once each in queue
\* order, the second are counted in MessagesDropped
FlushDelivers ==
    LET Del == SelectSeq(MessageQueue, Deliverable)
    IN  /\ last'.calls = [i \in 1..Len(Del) |-> Delivery(Del[i])]
        /\ Statistics'.MessagesRouted = Statistics.MessagesRouted + Len(Del)
        /\ Statistics'.MessagesDropped =
               Statistics.MessagesDropped + Len(SelectSeq(MessageQueue, HardMissed))

\* C7 as stated: a flush with queuing enabled delivers the entries that have
\* a cached handler, once each in queue order, drops (and counts) the entries
\* of a registered target without handler, and leaves in the queue exactly
\* the entries whose target is still unknown, in their order.
C7_FlushAsStated ==
    [][(IsFlush /\ bQueueUnknownTargets)
       => /\ FlushDelivers
          /\ MessageQueue' = SelectSeq(MessageQueue, TargetUnknown)]_vars

\* C7 (amended): as above, the queue after the flush being exactly the
\* entries whose target is still unknown and that have no cached handler.
C7_Flush ==
    [][(IsFlush /\ bQueueUnknownTargets)
       => /\ FlushDelivers
          /\ MessageQueue' = SelectSeq(MessageQueue, StillWaiting)]_vars

\* C7 witness: a flush of three entries delivered one, dropped one and kept one
C7_Witness ==
    /\ last.op \in {"FlushQueue", "RegisterTarget"}
    /\ bQueueUnknownTargets
    /\ last.QueuedBefore = 3
    /\ Len(last.calls) = 1
    /\ Statistics.MessagesRouted = 1
    /\ Statistics.MessagesDropped = 1
    /\ Len(MessageQueue) = 1

-----------------------------------------------------------------------------
(* Messages that arrive before their target has registered *)

\* Runs of SpecStartup: the UI sends messages to the game mode while the game
\* mode begins and ends play; the queue is flushed, cleared and configured.
InitStartup ==
    /\ InitRouter
    /\ budget = MaxStartupSteps
    /\ scen = ScenIdle(FALSE)
    /\ hist = HistOff

NextStartup ==
    \/ DoBeginPlay
    \/ DoEndPlay
    \/ \E M \in {"playerAction", "setLevel", "other"}, D \in TextData :
            DoRouteMessage(FlutterTargetName, M, D)
    \/ DoFlushQueue
    \/ DoClearQueue
    \/ \E bEnable \in BOOLEAN : DoSetQueueUnknownTargets(bEnable)
    \/ \E Size \in {1, 2} : DoSetMaxQueueSize(Size)

SpecStartup == InitStartup /\ [][NextStartup]_vars

\* a queued text message for a method the game mode registers a handler for
ForGameMode(Msg) ==
    /\ Msg.Target = FlutterTargetName
    /\ Msg.Method \in GameModeMethods
    /\ ~Msg.bIsBinary

\* C8 (pre-ready queuing): a message routed to the game mode before it has
\* registered, and waiting in the queue when the game mode registers in the
\* documented order (RegisterTarget, then RegisterMethod), is delivered to
\* its handler by the registration, or is at least still waiting in the
\* queue to be delivered later.
C8_QueuedUntilRegistered ==
    [][(/\ last'.op = "BeginPlay"
        /\ bQueueUnknownTargets
        /\ ~Contains(Targets, FlutterTargetName))
       => \A i \in 1..Len(MessageQueue) :
            ForGameMode(MessageQueue[i])
            => \/ \E j \in 1..Len(last'.calls) :
                    last'.calls[j] = Execute(HandleFlutterMessage,
                                             MessageQueue[i].Method,
                                             MessageQueue[i].Data, FALSE, EmptyBytes)
               \/ \E k \in 1..Len(MessageQueue') :
                    MessageQueue'[k] = MessageQueue[i]]_vars

-----------------------------------------------------------------------------
(* The eviction-then-flush scenario *)

\* Runs of SpecScenario: the calls of the scenario in any order and number.
InitScenario ==
    /\ InitRouter
    /\ budget = MaxScenarioSteps
    /\ scen = ScenIdle(TRUE)
    /\ hist = HistOff

NextScenario ==
    \/ DoSetMaxQueueSize(2)
    \/ \E T \in {"A", "B", "C"} : DoRouteMessage(T, "m", "d1")
    \/ \E T \in {"A", "B"} : DoRegisterTarget(T, "o1", TRUE)
    \/ \E T \in {"B", "C"} : DoRegisterMethod(T, "m", "h1")

SpecScenario == InitScenario /\ [][NextScenario]_vars

\* what the scenario says of its phases, given the condition Ok on the
\* caching of handlers
ScenarioHolds(Ok) ==
    /\ (scen.phase = 3 /\ Ok)
       => MessageQueue = <<scen.msgs[2], scen.msgs[3]>>
    /\ (scen.phase = 4 /\ Ok)
       => /\ MessageQueue = <<scen.msgs[2], scen.msgs[3]>>
          /\ last.calls = <<>>
    /\ (scen.phase = 5 /\ Ok /\ scen.hb)
       => /\ last.calls = <<Execute(CachedDelegates[GetCacheKey(scen.msgs[2].Target,
                                                                scen.msgs[2].Method)],
                                    scen.msgs[2].Method, scen.msgs[2].Data,
                                    FALSE, EmptyBytes)>>
          /\ MessageQueue = <<scen.msgs[3]>>

\* C9 as stated: with MaxQueueSize = 2 and A, B, C unknown, routing a message
\* to A, to B and to C leaves the queue [B's, C's]; RegisterTarget(A) then
\* delivers nothing and leaves [B's, C's]; RegisterTarget(B), a handler for
\* B's message having been cached before, delivers B's message exactly once
\* and leaves [C's].  The three messages are queued when routed, and no
\* handler is cached for C's message, of which the scenario delivers nothing.
C9_ScenarioAsStated == ScenarioHolds(scen.queuedB /\ scen.cleanC)

\* C9 (amended): the same, the handler for B's message being cached after
\* RegisterTarget(A) has returned and before RegisterTarget(B) is called.
C9_Scenario == ScenarioHolds(scen.cleanB /\ scen.cleanC)

\* C9 witness: the scenario ran to its end, B's handler having been cached
\* between the two registrations, and delivered one message
C9_Witness ==
    /\ scen.phase = 5
    /\ scen.cleanB
    /\ scen.cleanC
    /\ scen.hb
    /\ Len(last.calls) = 1
    /\ Len(MessageQueue) = 1

-----------------------------------------------------------------------------
(* Rejected registrations *)

\* the step is a RegisterTarget call that the router rejects: a null object,
\* or bIsSingleton on a name that is occupied
IsRejectedRegisterTarget ==
    /\ last'.op = "RegisterTarget"
    /\ \/ last'.Object = nullptr
       \/ last'.Flag /\ Contains(Targets, last'.Target)

\* C11 (rejected registration): a rejected RegisterTarget call leaves the
\* target map, the singleton flags, both handler caches, the queue, the
\* configuration and the statistics as they were and executes no handler (no
\* flush takes place, also when a flush would have delivered or dropped a
\* queued message).
C11_RejectedNoChange ==
    [][IsRejectedRegisterTarget
       => /\ UNCHANGED <<Targets, SingletonFlags, CachedDelegates,
                         CachedBinaryDelegates, MessageQueue,
                         bQueueUnknownTargets, MaxQueueSize, Statistics>>
          /\ last'.calls = <<>>]_vars

\* C11 witness: a singleton registration on an occupied name was rejected
\* while the queue held a message that a flush would have delivered or dropped
C11_Witness ==
    /\ last.op = "RegisterTarget"
    /\ last.Object # nullptr
    /\ last.Flag
    /\ Contains(Targets, last.Target)
    /\ Targets[last.Target] # last.Object
    /\ FlushQueue(Router).MessageQueue # MessageQueue

\* C11 witness of the other rejection: a null object was rejected while the
\* queue held a message that a flush would have delivered or dropped
C11_WitnessNull ==
    /\ last.op = "RegisterTarget"
    /\ last.Object = nullptr
    /\ FlushQueue(Router).MessageQueue # MessageQueue

-----------------------------------------------------------------------------
(* UnregisterTarget and the handler caches *)

\* the step is an UnregisterTarget call on a registered target
IsUnregisterTarget ==
    /\ last'.op = "UnregisterTarget"
    /\ Contains(Targets, last'.Target)

\* C12 (unregister purges handlers): right after UnregisterTarget(X) on a
\* registered target X neither cache holds a key of X, and RouteMessage(X, M,
\* data) from that state executes no handler and is a soft miss: with queuing
\* enabled it returns true with the message at the tail of the queue and
\* MessagesDropped as it was, with queuing disabled it returns false.
C12_UnregisterPurges ==
    [][IsUnregisterTarget
       => /\ ~Contains(Targets', last'.Target)
          /\ \A Key \in (DOMAIN CachedDelegates') \cup (DOMAIN CachedBinaryDelegates') :
                ~StartsWith(Key, last'.Target \o ":")
          /\ \A M \in MethodNames, D \in TextData :
                LET t == RouteMessage(Router', last'.Target, M, D)
                IN  /\ t.calls = <<>>
                    /\ t.ret = bQueueUnknownTargets'
                    /\ IF bQueueUnknownTargets'
                       THEN /\ t.MessageQueue[Len(t.MessageQueue)] =
                                   TextMessage(last'.Target, M, D)
                            /\ t.Statistics.MessagesDropped = Statistics'.MessagesDropped
                       ELSE t.MessageQueue = MessageQueue']_vars

\* C12 witness: a target whose handler had delivered a message was
\* unregistered, and the caches are empty
C12_Witness ==
    /\ last.op = "UnregisterTarget"
    /\ Targets = EmptyMap
    /\ Statistics.RegisteredTargets = 0
    /\ Statistics.MessagesRouted = 1
    /\ CachedDelegates = EmptyMap
    /\ CachedBinaryDelegates = EmptyMap

-----------------------------------------------------------------------------
(* Handlers and the registration of their targets *)

\* C13 as stated: in every reachable state every key of the text and of the
\* binary cache belongs to a registered target, and a call that executed a
\* handler was a call for a registered target.
C13_HandlersOfRegistered ==
    /\ \A Key \in (DOMAIN CachedDelegates) \cup (DOMAIN CachedBinaryDelegates) :
          \E T \in DOMAIN Targets : StartsWith(Key, T \o ":")
    /\ (last.op \in {"RouteMessage", "RouteBinaryMessage"} /\ last.calls # <<>>)
       => Contains(Targets, last.Target)

\* the step caches a handler under Key
CachesHandler(Key) ==
    /\ last'.op \in {"RegisterMethod", "RegisterBinaryMethod"}
    /\ Key = CallKey

\* C13 (amended): the caches hold a key of a target that is not registered
\* only if a RegisterMethod / RegisterBinaryMethod call put it there while the
\* target was not registered: after every step, a key of an unregistered
\* target was in the same cache before the step, its target unregistered
\* then too, or the step is the call that cached it.  UnregisterTarget leaves
\* no key of its target behind.
C13_OrphansFromRegisterMethod ==
    [][\A T \in TargetNames, M \in MethodNames :
         LET Key == GetCacheKey(T, M)
         IN  /\ (Contains(CachedDelegates', Key) /\ ~Contains(Targets', T))
                => \/ Contains(CachedDelegates, Key) /\ ~Contains(Targets, T)
                   \/ CachesHandler(Key) /\ last'.op = "RegisterMethod"
             /\ (Contains(CachedBinaryDelegates', Key) /\ ~Contains(Targets', T))
                => \/ Contains(CachedBinaryDelegates, Key) /\ ~Contains(Targets, T)
                   \/ CachesHandler(Key) /\ last'.op = "RegisterBinaryMethod"]_vars

\* C13 witness: a message was delivered to the handler of a target that is
\* not registered
C13_Witness ==
    /\ last.op \in {"RouteMessage", "RouteBinaryMessage"}
    /\ last.calls # <<>>
    /\ ~Contains(Targets, last.Target)
    /\ Statistics.RegisteredTargets = 0
    /\ Statistics.MessagesRouted = 1

-----------------------------------------------------------------------------
(* Registration of method handlers *)

\* Runs of SpecMethods: handlers are registered, replaced and unregistered in
\* both caches and messages are routed; the calls of the run are recorded.
InitMethods ==
    /\ InitRouter
    /\ budget = MaxMethodSteps
    /\ scen = ScenIdle(FALSE)
    /\ hist = HistOn

NextMethods ==
    \/ \E M \in {"m", "n"}, D \in {"h1", "h2", Unbound} : DoRegisterMethod("A", M, D)
    \/ DoRegisterMethod("B", "m", "h1")
    \/ \E D \in {"bh1", "bh2"} : DoRegisterBinaryMethod("A", "m", D)
    \/ DoUnregisterMethod("A", "m")
    \/ \E T \in {"A", "B"}, M \in {"m", "n"} : DoRouteMessage(T, M, "d1")
    \/ \E M \in {"m", "n"} : DoRouteBinaryMessage("A", M, <<7>>)
    \/ DoRegisterTarget("A", "o1", TRUE)

SpecMethods == InitMethods /\ [][NextMethods]_vars

\* the calls recorded so far that decide the handler of Key in the cache that
\* the method Register fills: those of Register and of UnregisterMethod on Key
Deciding(Register, Key) ==
    {i \in 1..Len(hist.calls) :
        /\ hist.calls[i].op \in {Register, "UnregisterMethod"}
        /\ GetCacheKey(hist.calls[i].Target, hist.calls[i].Method) = Key}

\* the delegate that the last of these calls registered for Key; Unbound if
\* there was none or the last one unregistered the method
LastRegistered(Register, Key) ==
    LET S == Deciding(Register, Key)
    IN  IF S = {} THEN Unbound
        ELSE LET i == CHOOSE n \in S : \A k \in S : k <= n
             IN  IF hist.calls[i].op = Register
                 THEN hist.calls[i].Object
                 ELSE Unbound

\* C14 (overwrite per pair and per cache): RouteMessage(T, M, d) executes,
\* exactly once, the delegate that the last RegisterMethod(T, M, .) call
\* registered, and no other; RouteBinaryMessage(T, M, b) the one that the last
\* RegisterBinaryMethod(T, M, .) call registered.  Registrations for other
\* pairs and registrations in the other cache make no difference; without a
\* bound delegate of its own cache a call executes nothing.
C14_OverwritePerPair ==
    [][/\ IsRouteMessage
          => last'.calls =
               IF IsBound(LastRegistered("RegisterMethod", CallKey))
               THEN <<Execute(LastRegistered("RegisterMethod", CallKey),
                              last'.Method, last'.Data, FALSE, EmptyBytes)>>
               ELSE <<>>
       /\ last'.op = "RouteBinaryMessage"
          => last'.calls =
               IF IsBound(LastRegistered("RegisterBinaryMethod", CallKey))
               THEN <<Execute(LastRegistered("RegisterBinaryMethod", CallKey),
                              last'.Method, EmptyString, TRUE, last'.BinaryData)>>
               ELSE <<>>]_vars

\* C14 witness: h1 and then h2 were registered for a pair that also has a
\* binary handler, another pair has a handler too, and RouteMessage executed h2
C14_Witness ==
    /\ last.op = "RouteMessage"
    /\ last.calls = <<Execute("h2", last.Method, last.Data, FALSE, EmptyBytes)>>
    /\ HasBinaryHandler(GetCacheKey(last.Target, last.Method))
    /\ \E i, j \in 1..Len(hist.calls) :
          /\ i < j
          /\ hist.calls[i].op = "RegisterMethod"
          /\ hist.calls[j].op = "RegisterMethod"
          /\ hist.calls[i].Target = last.Target
          /\ hist.calls[j].Target = last.Target
          /\ hist.calls[i].Method = last.Method
          /\ hist.calls[j].Method = last.Method
          /\ hist.calls[i].Object = "h1"
          /\ hist.calls[j].Object = "h2"

\* C14 witness of the other half: RouteBinaryMessage executed nothing for a
\* pair that has a bound handler in the text cache only
C14_WitnessBinary ==
    /\ last.op = "RouteBinaryMessage"
    /\ last.calls = <<>>
    /\ HasHandler(GetCacheKey(last.Target, last.Method))
    /\ ~HasBinaryHandler(GetCacheKey(last.Target, last.Method))

-----------------------------------------------------------------------------
(* AFlutterBridge: messages received from the UI *)

\* the Blueprint event AFlutterBridge fires for a received message
OnMessageFromFlutter == "AFlutterBridge::OnMessageFromFlutter"

\* AFlutterBridge::ReceiveFromFlutter: logs and fires the Blueprint event
\* OnMessageFromFlutter(Target, Method, Data); the router is not called
ReceiveFromFlutter(r, Target, Method, Data) ==
    [r EXCEPT !.calls = Append(@, Execute(OnMessageFromFlutter, Method, Data,
                                          FALSE, EmptyBytes))]

DoReceiveFromFlutter(Target, Method, Data) ==
    Apply(Call("ReceiveFromFlutter", Target, Method, Data, EmptyBytes,
               nullptr, FALSE, 0),
          ReceiveFromFlutter(Router, Target, Method, Data))

\* Runs of SpecBridge: targets and handlers register, messages arrive from
\* the UI through the bridge and are routed by direct calls of the router.
InitBridge ==
    /\ InitRouter
    /\ budget = MaxBridgeSteps
    /\ scen = ScenIdle(FALSE)
    /\ hist = HistOff

NextBridge ==
    \/ \E T \in TargetNames, M \in MethodNames, D \in TextData :
            DoReceiveFromFlutter(T, M, D)
    \/ \E T \in TargetNames, M \in MethodNames, D \in TextData :
            DoRouteMessage(T, M, D)
    \/ \E Name \in TargetNames : DoRegisterTarget(Name, "o1", TRUE)
    \/ \E T \in TargetNames, M \in MethodNames : DoRegisterMethod(T, M, "h1")

SpecBridge == InitBridge /\ [][NextBridge]_vars

\* C15 (inbound dispatch): ReceiveFromFlutter(target, method, data) makes,
\* before it returns, exactly one RouteMessage(target, method, data) call on
\* the router: the queue and the statistics after it are those after that
\* call, and the handler registered for (target, method) has been executed
\* for the message.
C15_InboundDispatch ==
    [][last'.op = "ReceiveFromFlutter"
       => LET t == RouteMessage(Router, last'.Target, last'.Method, last'.Data)
          IN  /\ MessageQueue' = t.MessageQueue
              /\ Statistics' = t.Statistics
              /\ \A i \in 1..Len(t.calls) :
                    \E j \in 1..Len(last'.calls) : last'.calls[j] = t.calls[i]]_vars

-----------------------------------------------------------------------------
(* AFlutterActor as an owner that registers with the router *)

\* the target name of the actor (GetFlutterTargetName, as the class doc's
\* example overrides it), the actor and the delegate RegisterWithFlutter binds
ActorTargetName == "MyGameActor"
ActorObject == "AMyGameActor_0"
OnFlutterMessageInternal == "AFlutterActor::OnFlutterMessageInternal"

\* AFlutterActor::RegisterWithFlutter, the router part: RegisterTarget, then
\* RegisterMethod under the method name "*"
RegisterWithFlutter(r) ==
    LET t == RegisterTarget(r, ActorTargetName, ActorObject, TRUE)
    IN  RegisterMethod(t, ActorTargetName, "*", OnFlutterMessageInternal)

\* AFlutterActor::UnregisterFromFlutter, the router part
UnregisterFromFlutter(r) ==
    IF bIsRegistered THEN UnregisterTarget(r, ActorTargetName) ELSE r

\* AFlutterActor::BeginPlay with bAutoRegister, of an actor that is not
\* registered
DoActorBeginPlay ==
    /\ ~bIsRegistered
    /\ bIsRegistered' = TRUE
    /\ UNCHANGED otherVars
    /\ UNCHANGED <<bHasBegunPlay, ActiveTransfers, bIsRegisteredSecond,
                   QualityLevels>>
    /\ ApplyRouter(Call("ActorBeginPlay", ActorTargetName, EmptyString, EmptyString,
                        EmptyBytes, ActorObject, TRUE, 0),
                   RegisterWithFlutter(Router))

\* AFlutterActor::EndPlay
DoActorEndPlay ==
    /\ bIsRegistered' = FALSE
    /\ UNCHANGED otherVars
    /\ UNCHANGED <<bHasBegunPlay, ActiveTransfers, bIsRegisteredSecond,
                   QualityLevels>>
    /\ ApplyRouter(Call("ActorEndPlay", ActorTargetName, EmptyString, EmptyString,
                        EmptyBytes, ActorObject, FALSE, 0),
                   UnregisterFromFlutter(Router))

\* Runs of SpecActor: the actor begins and ends play while messages with
\* several method names are routed to it.
InitActor ==
    /\ InitRouter
    /\ budget = MaxActorSteps
    /\ scen = ScenIdle(FALSE)
    /\ hist = HistOff

NextActor ==
    \/ DoActorBeginPlay
    \/ DoActorEndPlay
    \/ \E M \in {"*", "doAction", "move"}, D \in TextData :
            DoRouteMessage(ActorTargetName, M, D)
    \/ DoFlushQueue
    \/ \E bEnable \in BOOLEAN : DoSetQueueUnknownTargets(bEnable)

SpecActor == InitActor /\ [][NextActor]_vars

\* C16 (wildcard registration): while the actor is registered with the
\* router, every RouteMessage call for its target name, whatever the method
\* name, executes the actor's handler once with the method and the data of
\* the message and returns true.
C16_ActorWildcard ==
    [][(/\ IsRouteMessage
        /\ last'.Target = ActorTargetName
        /\ bIsRegistered
        /\ Contains(Targets, ActorTargetName))
       => /\ last'.calls = <<Execute(OnFlutterMessageInternal, last'.Method,
                                     last'.Data, FALSE, EmptyBytes)>>
          /\ last'.ret = TRUE]_vars

-----------------------------------------------------------------------------
(* AFlutterBridge: chunked binary transfers.  FlutterBridge.h declares the  *)
(* state (FChunkedTransfer, ActiveTransfers) and the operations; their      *)
(* bodies are modelled after section 4.4 of the specification.              *)

\* bitwise exclusive or of two naturals
RECURSIVE BitXor(_, _)
BitXor(a, b) ==
    IF a = 0 THEN b
    ELSE IF b = 0 THEN a
    ELSE (((a % 2) + (b % 2)) % 2) + (2 * BitXor(a \div 2, b \div 2))

\* a 32-bit register is a pair <<high, low>> of 16-bit halves

\* the reflected CRC-32 polynomial 0xEDB88320, the initial and final mask
\* 0xFFFFFFFF
CRC32Polynomial == <<60856, 33568>>
CRC32Mask == <<65535, 65535>>

Xor32(x, y) == <<BitXor(x[1], y[1]), BitXor(x[2], y[2])>>

\* x >> 1
ShiftRight32(x) == <<x[1] \div 2, (x[2] \div 2) + ((x[1] % 2) * 32768)>>

\* the eight shift steps of CRC-32 for one byte
RECURSIVE CRC32Shift(_, _)
CRC32Shift(crc, n) ==
    IF n = 0 THEN crc
    ELSE CRC32Shift(IF crc[2] % 2 = 1
                    THEN Xor32(ShiftRight32(crc), CRC32Polynomial)
                    ELSE ShiftRight32(crc),
                    n - 1)

\* the table of the byte-wise CRC-32: the eight shift steps of every byte
CRC32Table == [n \in 0..255 |-> CRC32Shift(<<0, n>>, 8)]

\* x >> 8
ShiftRight32By8(x) == <<x[1] \div 256, (x[2] \div 256) + ((x[1] % 256) * 256)>>

\* the CRC-32 register after the bytes of Data
RECURSIVE CRC32Update(_, _)
CRC32Update(crc, Data) ==
    IF Data = <<>> THEN crc
    ELSE LET Index == BitXor(crc[2] % 256, Head(Data))
             Next8 == Xor32(CRC32Table[Index], ShiftRight32By8(crc))
         IN  CRC32Update(<<Next8[1], Next8[2]>>, Tail(Data))

\* the register as an int32
ToInt32(x) ==
    IF x[1] >= 32768
    THEN ((x[1] - 65536) * 65536) + x[2]
    ELSE (x[1] * 65536) + x[2]

\* AFlutterBridge::CalculateCRC32: CRC32 over the raw bytes, as int32
CalculateCRC32(Data) == ToInt32(Xor32(CRC32Update(CRC32Mask, Data), CRC32Mask))

\* AFlutterBridge::VerifyChecksum: exact equality
VerifyChecksum(Data, ExpectedChecksum) == CalculateCRC32(Data) = ExpectedChecksum

\* the failure notification of a transfer whose checksum does not match
ChecksumFailure == "AFlutterBridge::ChecksumFailure"

\* the bridge with its router: the state the transfer operations work on
Bridge == [router |-> Router, ActiveTransfers |-> ActiveTransfers]

\* FChunkedTransfer as the chunk header fills it: no chunk received
NewTransfer(Target, Method, TotalSize, TotalChunks, Checksum) ==
    [Target |-> Target, Method |-> Method, TotalSize |-> TotalSize,
     TotalChunks |-> TotalChunks, ExpectedChecksum |-> Checksum,
     Chunks |-> EmptyMap, ReceivedChunks |-> 0]

\* the chunks concatenated from the highest index down
RECURSIVE ConcatenateChunks_Descending(_)
ConcatenateChunks_Descending(Chunks) ==
    IF DOMAIN Chunks = {}
    THEN <<>>
    ELSE LET Last == CHOOSE i \in DOMAIN Chunks : \A j \in DOMAIN Chunks : i >= j
         IN  Chunks[Last] \o ConcatenateChunks_Descending(MapRemove(Chunks, {Last}))

\* the chunks of a TMap<int32, TArray<uint8>> concatenated in index order
RECURSIVE ConcatenateChunks(_)
ConcatenateChunks(Chunks) ==
    IF DOMAIN Chunks = {}
    THEN <<>>
    ELSE LET First == CHOOSE i \in DOMAIN Chunks : \A j \in DOMAIN Chunks : i <= j
         IN  Chunks[First] \o ConcatenateChunks(MapRemove(Chunks, {First}))

\* AFlutterBridge::ReceiveBinaryChunkHeader: the transfer is created
ReceiveBinaryChunkHeader(b, Target, Method, TransferId, TotalSize, TotalChunks, Checksum) ==
    [b EXCEPT !.ActiveTransfers =
        MapAdd(@, TransferId,
               NewTransfer(Target, Method, TotalSize, TotalChunks, Checksum))]

\* AssembleChunkedTransfer leaving the transfer in the map
AssembleChunkedTransfer_KeepEntry(b, TransferId) ==
    LET Transfer == b.ActiveTransfers[TransferId]
        Data == ConcatenateChunks(Transfer.Chunks)
    IN  IF VerifyChecksum(Data, Transfer.ExpectedChecksum)
        THEN [b EXCEPT !.router = RouteBinaryMessage(@, Transfer.Target,
                                                     Transfer.Method, Data)]
        ELSE [b EXCEPT !.router.calls =
                 Append(@, Execute(ChecksumFailure, Transfer.Method, TransferId,
                                   TRUE, EmptyBytes))]

\* AssembleChunkedTransfer without the checksum verification
AssembleChunkedTransfer_NoVerify(b, TransferId) ==
    LET Transfer == b.ActiveTransfers[TransferId]
        Data == ConcatenateChunks(Transfer.Chunks)
        t == [b EXCEPT !.ActiveTransfers = MapRemove(@, {TransferId})]
    IN  [t EXCEPT !.router = RouteBinaryMessage(@, Transfer.Target,
                                                Transfer.Method, Data)]

\* AFlutterBridge::AssembleChunkedTransfer: the chunks are concatenated in
\* index order and the checksum is verified; on success the payload goes to
\* RouteBinaryMessage, on mismatch a failure is reported; the transfer is
\* deleted in both cases
AssembleChunkedTransfer(b, TransferId) ==
    LET Transfer == b.ActiveTransfers[TransferId]
        Data == ConcatenateChunks(Transfer.Chunks)
        t == [b EXCEPT !.ActiveTransfers = MapRemove(@, {TransferId})]
    IN  IF VerifyChecksum(Data, Transfer.ExpectedChecksum)
        THEN [t EXCEPT !.router = RouteBinaryMessage(@, Transfer.Target,
                                                     Transfer.Method, Data)]
        ELSE [t EXCEPT !.router.calls =
                 Append(@, Execute(ChecksumFailure, Transfer.Method, TransferId,
                                   TRUE, EmptyBytes))]

\* AFlutterBridge::ReceiveBinaryChunkData: the chunk is stored under its
\* index, replacing the bytes stored there, and the count of received chunks
\* goes up by one; when the count reaches the chunk count of the header the
\* transfer is assembled.  Frames of a transfer that is not active are ignored.
ReceiveBinaryChunkData(b, Target, Method, TransferId, ChunkIndex, Data) ==
    IF ~Contains(b.ActiveTransfers, TransferId)
    THEN b
    ELSE LET Old == b.ActiveTransfers[TransferId]
             New == [Old EXCEPT !.Chunks = MapAdd(@, ChunkIndex, Data),
                                !.ReceivedChunks = @ + 1]
             t == [b EXCEPT !.ActiveTransfers = MapAdd(@, TransferId, New)]
         IN  IF New.ReceivedChunks = New.TotalChunks
             THEN AssembleChunkedTransfer(t, TransferId)
             ELSE t

\* AFlutterBridge::ReceiveBinaryChunkFooter: the footer repeats the chunk
\* count and the checksum of the header; completion does not wait for it
ReceiveBinaryChunkFooter(b, Target, Method, TransferId, TotalChunks, Checksum) == b

\* the variables after a call c of a bridge method that took the bridge to b
ApplyBridge(c, b) ==
    /\ ApplyRouter(c, b.router)
    /\ ActiveTransfers' = b.ActiveTransfers
    /\ UNCHANGED otherVars
    /\ UNCHANGED <<bHasBegunPlay, bIsRegistered, bIsRegisteredSecond,
                   QualityLevels>>

DoReceiveBinaryChunkHeader(Target, Method, TransferId, TotalSize, TotalChunks, Checksum) ==
    ApplyBridge(Call("ReceiveBinaryChunkHeader", Target, Method, TransferId,
                     EmptyBytes, nullptr, FALSE, TotalChunks),
                ReceiveBinaryChunkHeader(Bridge, Target, Method, TransferId,
                                         TotalSize, TotalChunks, Checksum))

DoReceiveBinaryChunkData(Target, Method, TransferId, ChunkIndex, Data) ==
    ApplyBridge(Call("ReceiveBinaryChunkData", Target, Method, TransferId,
                     Data, nullptr, FALSE, ChunkIndex),
                ReceiveBinaryChunkData(Bridge, Target, Method, TransferId,
                                       ChunkIndex, Data))

DoReceiveBinaryChunkFooter(Target, Method, TransferId, TotalChunks, Checksum) ==
    ApplyBridge(Call("ReceiveBinaryChunkFooter", Target, Method, TransferId,
                     EmptyBytes, nullptr, FALSE, TotalChunks),
                ReceiveBinaryChunkFooter(Bridge, Target, Method, TransferId,
                                         TotalChunks, Checksum))

\* the payloads the sender transfers, the chunk counts it splits them into
\* and the bytes of a chunk frame as it arrives (intact or corrupted)
Payloads == {<<1, 2, 3>>, <<1, 2>>}
ChunkCounts == {2, 3}
ChunkBytes == {<<1>>, <<2>>, <<3>>, <<2, 3>>}
TransferIds == {"t1"}

\* Runs of SpecTransfer: headers, chunk frames in any order and any number of
\* times, with any of the chunk bytes and an index below the chunk count of
\* the header, and footers arrive for a transfer to target "A"; the target
\* and its binary handler register at any time.
InitTransfer ==
    /\ InitRouter
    /\ budget = MaxTransferSteps
    /\ scen = ScenIdle(FALSE)
    /\ hist = HistOff

NextTransfer ==
    \/ \E Id \in TransferIds, N \in ChunkCounts, P \in Payloads :
            DoReceiveBinaryChunkHeader("A", "m", Id, Len(P), N, CalculateCRC32(P))
    \/ \E Id \in TransferIds, i \in 0..2, D \in ChunkBytes :
            /\ Contains(ActiveTransfers, Id) => i < ActiveTransfers[Id].TotalChunks
            /\ DoReceiveBinaryChunkData("A", "m", Id, i, D)
    \/ \E Id \in TransferIds, N \in ChunkCounts, P \in Payloads :
            DoReceiveBinaryChunkFooter("A", "m", Id, N, CalculateCRC32(P))
    \/ DoRegisterBinaryMethod("A", "m", "bh1")
    \/ DoRegisterTarget("A", "o1", TRUE)

SpecTransfer == InitTransfer /\ [][NextTransfer]_vars

(***************************************************************************)
(* The round trip of a chunked transfer.                                   *)
(***************************************************************************)

\* the chunks 0..N-1 of Chunks one after the other
RECURSIVE InIndexOrder(_, _)
InIndexOrder(Chunks, N) ==
    IF N = 0 THEN <<>> ELSE InIndexOrder(Chunks, N - 1) \o Chunks[N - 1]

\* the call c is a chunk frame of an active transfer
IsChunkOfActive(c) ==
    c.op = "ReceiveBinaryChunkData" /\ Contains(ActiveTransfers, c.Data)

\* the chunks of the transfer of the chunk frame c once c is stored
ChunksWith(c) == MapAdd(ActiveTransfers[c.Data].Chunks, c.Size, c.BinaryData)

\* the chunk frame c is the last frame of its transfer, every frame of the
\* transfer having arrived exactly once
IsLastFrame(c) ==
    /\ IsChunkOfActive(c)
    /\ LET Transfer == ActiveTransfers[c.Data]
       IN  /\ ~Contains(Transfer.Chunks, c.Size)
           /\ Transfer.ReceivedChunks = Cardinality(DOMAIN Transfer.Chunks)
           /\ DOMAIN ChunksWith(c) = 0..(Transfer.TotalChunks - 1)

\* the step leaves the router as it was and runs no handler of a target
NothingDelivered ==
    /\ UNCHANGED <<Targets, SingletonFlags, CachedDelegates,
                   CachedBinaryDelegates, MessageQueue, bQueueUnknownTargets,
                   MaxQueueSize, Statistics>>
    /\ \A i \in 1..Len(last'.calls) : last'.calls[i].Delegate = ChecksumFailure

\* the step is the call RouteBinaryMessage(Target, Method, Data), and
\* nothing else, on the router
RoutedWhole(Target, Method, Data) ==
    LET t == RouteBinaryMessage(Router, Target, Method, Data)
    IN  /\ Router' = [t EXCEPT !.ret = FALSE, !.calls = <<>>]
        /\ last'.calls = t.calls

\* C17: when the frames of a transfer have all arrived, each once and in
\* any order, and the header carries the CRC32 of the payload P, then the
\* last frame makes exactly one call of RouteBinaryMessage with the chunks
\* concatenated in index order, which are P, and the transfer is gone; if
\* the chunks in index order are not P, a byte of a chunk being corrupted,
\* nothing is delivered and the transfer is gone as well.
C17_RoundTrip ==
    [][\A P \in Payloads :
         (/\ IsLastFrame(last')
          /\ ActiveTransfers[last'.Data].ExpectedChecksum = CalculateCRC32(P))
         => LET Transfer == ActiveTransfers[last'.Data]
                Data == InIndexOrder(ChunksWith(last'), Transfer.TotalChunks)
                Key == GetCacheKey(Transfer.Target, Transfer.Method)
            IN  /\ ~Contains(ActiveTransfers', last'.Data)
                /\ IF Data = P
                   THEN /\ RoutedWhole(Transfer.Target, Transfer.Method, P)
                        /\ (Contains(CachedBinaryDelegates, Key)
                            /\ IsBound(CachedBinaryDelegates[Key]))
                           => /\ Len(last'.calls) = 1
                              /\ last'.calls[1].BinaryData = P
                              /\ last'.calls[1].Delegate = CachedBinaryDelegates[Key]
                   ELSE NothingDelivered]_vars

\* three chunks arrived, index 1 last, and the handler got <<1, 2, 3>>
C17_Witness ==
    /\ last.op = "ReceiveBinaryChunkData"
    /\ last.Size = 1
    /\ last.BinaryData = <<2>>
    /\ Len(last.calls) = 1
    /\ last.calls[1].Delegate = "bh1"
    /\ last.calls[1].BinaryData = <<1, 2, 3>>
    /\ ~Contains(ActiveTransfers, last.Data)

\* the frames of a transfer arrived once each, one of them corrupted
C17_WitnessCorrupted ==
    /\ last.op = "ReceiveBinaryChunkData"
    /\ Len(last.calls) = 1
    /\ last.calls[1].Delegate = ChecksumFailure
    /\ Contains(CachedBinaryDelegates, GetCacheKey("A", "m"))
    /\ last.Size = 2

(***************************************************************************)
(* Checksum failure.                                                       *)
(***************************************************************************)

\* the chunk frame c brings the count of its transfer to the chunk count
IsCompleting(c) ==
    /\ IsChunkOfActive(c)
    /\ ActiveTransfers[c.Data].ReceivedChunks + 1 = ActiveTransfers[c.Data].TotalChunks

\* the CRC32 of the chunks of the transfer of c, c stored, in index order
ReassembledChecksum(c) == CalculateCRC32(ConcatenateChunks(ChunksWith(c)))

\* C18: when a transfer completes and the CRC32 of the reassembled bytes is
\* not the checksum of its header, the transfer leaves ActiveTransfers, the
\* failure is reported, and nothing reaches RouteBinaryMessage, the queue or
\* a handler; and whatever a chunk frame makes a handler or the queue
\* receive has the checksum of the header, so it is never a part of the
\* payload only.
C18_ChecksumFailure ==
    [][last'.op = "ReceiveBinaryChunkData"
       => /\ (IsCompleting(last')
              /\ ReassembledChecksum(last') # ActiveTransfers[last'.Data].ExpectedChecksum)
             => /\ ~Contains(ActiveTransfers', last'.Data)
                /\ Len(last'.calls) = 1
                /\ last'.calls[1].Delegate = ChecksumFailure
                /\ NothingDelivered
          /\ ~IsCompleting(last') => (NothingDelivered /\ last'.calls = <<>>)
          /\ IsCompleting(last')
             => LET Expected == ActiveTransfers[last'.Data].ExpectedChecksum
                IN  /\ \A i \in 1..Len(last'.calls) :
                          \/ last'.calls[i].Delegate = ChecksumFailure
                          \/ CalculateCRC32(last'.calls[i].BinaryData) = Expected
                    /\ \/ MessageQueue' = MessageQueue
                       \/ /\ Len(MessageQueue') = Len(MessageQueue) + 1
                          /\ SubSeq(MessageQueue', 1, Len(MessageQueue)) = MessageQueue
                          /\ CalculateCRC32(MessageQueue'[Len(MessageQueue')].BinaryData)
                                = Expected]_vars

\* a transfer to a registered handler completed with the wrong checksum:
\* the failure was reported and the handler did not run
C18_Witness ==
    /\ last.op = "ReceiveBinaryChunkData"
    /\ last.calls = <<Execute(ChecksumFailure, "m", "t1", TRUE, EmptyBytes)>>
    /\ Contains(CachedBinaryDelegates, GetCacheKey("A", "m"))
    /\ ActiveTransfers = EmptyMap
    /\ Statistics.MessagesRouted = 0

(***************************************************************************)
(* Duplicate chunk frames.                                                 *)
(***************************************************************************)

\* C19: a chunk frame for an index that its transfer has already stored
\* replaces the stored bytes and changes nothing else: the transfer stays
\* active with the same count, nothing is assembled, delivered or reported;
\* so a transfer is assembled only when all its indices are stored.
C19_DuplicatesIdempotent ==
    [][(/\ IsChunkOfActive(last')
        /\ Contains(ActiveTransfers[last'.Data].Chunks, last'.Size))
       => /\ Contains(ActiveTransfers', last'.Data)
          /\ ActiveTransfers'[last'.Data] =
                [ActiveTransfers[last'.Data] EXCEPT !.Chunks = ChunksWith(last')]
          /\ NothingDelivered
          /\ last'.calls = <<>>]_vars

\* a transfer was assembled although an index of it had not arrived
C19_AssembledIncomplete ==
    /\ last.op = "ReceiveBinaryChunkData"
    /\ last.Size = 0
    /\ last.calls = <<Execute(ChecksumFailure, "m", "t1", TRUE, EmptyBytes)>>
    /\ budget = MaxTransferSteps - 3

(***************************************************************************)
(* The life of a transfer.                                                 *)
(***************************************************************************)

\* C20: a header starts a transfer with no chunk; a chunk frame of an active
\* transfer raises its count and the transfer stays active below the chunk
\* count and is removed when the count reaches it, no other call touching
\* the transfers; a transfer that completes with the right checksum is
\* handed whole to RouteBinaryMessage(target, method, payload), that call
\* being the whole effect on the router; and a chunk frame of a transfer
\* that is not active, a completed one included, changes and delivers
\* nothing.
C20_Lifecycle ==
    [][/\ last'.op = "ReceiveBinaryChunkHeader"
          => /\ Contains(ActiveTransfers', last'.Data)
             /\ ActiveTransfers'[last'.Data].ReceivedChunks = 0
             /\ ActiveTransfers'[last'.Data].Chunks = EmptyMap
             /\ NothingDelivered /\ last'.calls = <<>>
       /\ IsChunkOfActive(last')
          => LET Transfer == ActiveTransfers[last'.Data]
             IN  IF Transfer.ReceivedChunks + 1 = Transfer.TotalChunks
                 THEN /\ ~Contains(ActiveTransfers', last'.Data)
                      /\ ReassembledChecksum(last') = Transfer.ExpectedChecksum
                         => RoutedWhole(Transfer.Target, Transfer.Method,
                                        ConcatenateChunks(ChunksWith(last')))
                 ELSE /\ Contains(ActiveTransfers', last'.Data)
                      /\ ActiveTransfers'[last'.Data].ReceivedChunks =
                            Transfer.ReceivedChunks + 1
                      /\ ActiveTransfers'[last'.Data].ReceivedChunks <
                            Transfer.TotalChunks
       /\ (last'.op = "ReceiveBinaryChunkData" /\ ~IsChunkOfActive(last'))
          => /\ UNCHANGED ActiveTransfers
             /\ NothingDelivered /\ last'.calls = <<>>
       /\ last'.op \notin {"ReceiveBinaryChunkHeader", "ReceiveBinaryChunkData"}
          => UNCHANGED ActiveTransfers]_vars

\* a transfer to a target that is not registered completed: its payload is
\* in the queue as one message and the transfer is gone
C20_Witness ==
    /\ last.op = "ReceiveBinaryChunkData"
    /\ last.ret
    /\ last.calls = <<>>
    /\ MessageQueue = <<BinaryMessage("A", "m", <<1, 2>>)>>
    /\ ~Contains(ActiveTransfers, last.Data)

\* a chunk frame arrived for a transfer that had completed and been delivered
C20_WitnessAfterComplete ==
    /\ last.op = "ReceiveBinaryChunkData"
    /\ last.calls = <<>>
    /\ ~Contains(ActiveTransfers, last.Data)
    /\ Statistics.MessagesRouted = 1

(***************************************************************************)
(* ClearQueue.                                                             *)
(***************************************************************************)

\* C21: after ClearQueue the queue is empty and QueuedMessages is 0; the
\* targets, the singleton flags, both handler caches, the configuration and
\* the routed and dropped counters are as before; no handler runs, and none
\* runs in a FlushQueue or a RegisterTarget called from the state reached.
C21_ClearQueue ==
    [][last'.op = "ClearQueue"
       => /\ MessageQueue' = <<>>
          /\ Statistics'.QueuedMessages = 0
          /\ UNCHANGED <<Targets, SingletonFlags, CachedDelegates,
                         CachedBinaryDelegates, bQueueUnknownTargets, MaxQueueSize>>
          /\ Statistics'.MessagesRouted = Statistics.MessagesRouted
          /\ Statistics'.MessagesDropped = Statistics.MessagesDropped
          /\ last'.calls = <<>>
          /\ FlushQueue(Router').calls = <<>>
          /\ FlushQueue(Router').MessageQueue = <<>>
          /\ \A Name \in TargetNames, Target \in Objects, bIsSingleton \in BOOLEAN :
                LET t == RegisterTarget(Router', Name, Target, bIsSingleton)
                IN  t.calls = <<>> /\ t.MessageQueue = <<>>]_vars

\* ClearQueue was called on a queue holding a message whose handler is
\* cached, which a FlushQueue would have delivered
C21_Witness ==
    /\ last.op = "ClearQueue"
    /\ last.QueuedBefore > 0
    /\ MessageQueue = <<>>
    /\ \E T \in TargetNames, M \in MethodNames :
          /\ Contains(CachedDelegates, GetCacheKey(T, M))
          /\ IsBound(CachedDelegates[GetCacheKey(T, M)])

(***************************************************************************)
(* SetMaxQueueSize.                                                        *)
(***************************************************************************)

\* the sizes SetMaxQueueSize is called with in SpecTrim
TrimSizes == {-1, 0, 1, 2, 3}

\* Runs of SpecTrim: text and binary messages for the unregistered target "A"
\* are queued and the limit is set to every size of TrimSizes.
InitTrim ==
    /\ InitRouter
    /\ budget = MaxTrimSteps
    /\ scen = ScenIdle(FALSE)
    /\ hist = HistOff

NextTrim ==
    \/ \E D \in TextData : DoRouteMessage("A", "m", D)
    \/ DoRouteBinaryMessage("A", "m", <<7>>)
    \/ \E Size \in TrimSizes : DoSetMaxQueueSize(Size)

SpecTrim == InitTrim /\ [][NextTrim]_vars

\* the last n entries of Queue
LastEntries(Queue, n) == SubSeq(Queue, Len(Queue) - n + 1, Len(Queue))

\* C22: SetMaxQueueSize(n) sets the limit to n, or to 1 when n < 1, and the
\* queue becomes its last min(old length, new limit) entries in their
\* order, which is the queue itself when it is within the limit.
C22_SetMaxQueueSize ==
    [][last'.op = "SetMaxQueueSize"
       => LET Limit == IF last'.Size >= 1 THEN last'.Size ELSE 1
              Kept == IF Len(MessageQueue) <= Limit THEN Len(MessageQueue) ELSE Limit
          IN  /\ MaxQueueSize' = Limit
              /\ MessageQueue' = LastEntries(MessageQueue, Kept)
              /\ Len(MessageQueue) <= Limit => MessageQueue' = MessageQueue]_vars

\* SetMaxQueueSize(0) on a queue of three different messages kept the last
C22_Witness ==
    /\ last.op = "SetMaxQueueSize"
    /\ last.Size = 0
    /\ last.QueuedBefore = 3
    /\ MaxQueueSize = 1
    /\ Len(MessageQueue) = 1

(***************************************************************************)
(* The derived statistics.                                                 *)
(***************************************************************************)

\* C23: after every operation RegisteredTargets is the number of targets,
\* CachedDelegates the number of text handlers plus the number of binary
\* handlers, and QueuedMessages the length of the queue.
C23_DerivedStatistics ==
    /\ Statistics.RegisteredTargets = Cardinality(DOMAIN Targets)
    /\ Statistics.CachedDelegates =
          Cardinality(DOMAIN CachedDelegates) + Cardinality(DOMAIN CachedBinaryDelegates)
    /\ Statistics.QueuedMessages = Len(MessageQueue)

\* a target, a text and a binary handler and a queued message are counted
C23_Witness ==
    /\ Statistics.RegisteredTargets = 1
    /\ Cardinality(DOMAIN CachedDelegates) = 1
    /\ Cardinality(DOMAIN CachedBinaryDelegates) = 1
    /\ Statistics.CachedDelegates = 2
    /\ Statistics.QueuedMessages = 1
    /\ Len(MessageQueue) = 1

(***************************************************************************)
(* The delivery counters.                                                  *)
(***************************************************************************)

\* C24: ResetStatistics sets MessagesRouted and MessagesDropped to 0; every
\* other operation adds to MessagesRouted the number of handlers it has
\* executed, directly or while flushing the queue, and does not lower
\* MessagesDropped.
C24_DeliveryCounters ==
    [][IF last'.op = "ResetStatistics"
       THEN /\ Statistics'.MessagesRouted = 0
            /\ Statistics'.MessagesDropped = 0
       ELSE /\ Statistics'.MessagesRouted =
                  Statistics.MessagesRouted + Len(last'.calls)
            /\ Statistics'.MessagesDropped >= Statistics.MessagesDropped]_vars

\* a FlushQueue has executed two handlers and both are counted
C24_Witness ==
    /\ last.op = "FlushQueue"
    /\ Len(last.calls) = 2
    /\ Statistics.MessagesRouted = 2

(***************************************************************************)
(* AFlutterBridge: quality settings.                                       *)
(***************************************************************************)

\* AFlutterBridge::SetScalabilityQuality
SetScalabilityQuality(q, Level) == SingleQualityLevel(Level)

\* AFlutterBridge::SetAntiAliasingQuality and the six setters like it
SetAntiAliasingQuality(q, Quality) == [q EXCEPT !.AntiAliasingQuality = Quality]
SetShadowQuality(q, Quality) == [q EXCEPT !.ShadowQuality = Quality]
SetPostProcessQuality(q, Quality) == [q EXCEPT !.PostProcessQuality = Quality]
SetTextureQuality(q, Quality) == [q EXCEPT !.TextureQuality = Quality]
SetEffectsQuality(q, Quality) == [q EXCEPT !.EffectsQuality = Quality]
SetFoliageQuality(q, Quality) == [q EXCEPT !.FoliageQuality = Quality]
SetViewDistanceQuality(q, Quality) == [q EXCEPT !.ViewDistanceQuality = Quality]

\* ApplyQualitySettings that does not apply the overall level
ApplyQualitySettings_NoLevel(q, QualityLevel, AntiAliasing, Shadow, PostProcess, Texture, Effects, Foliage, ViewDistance) ==
    LET q1 == IF AntiAliasing >= 0 THEN SetAntiAliasingQuality(q, AntiAliasing) ELSE q
        q2 == IF Shadow >= 0 THEN SetShadowQuality(q1, Shadow) ELSE q1
        q3 == IF PostProcess >= 0 THEN SetPostProcessQuality(q2, PostProcess) ELSE q2
        q4 == IF Texture >= 0 THEN SetTextureQuality(q3, Texture) ELSE q3
        q5 == IF Effects >= 0 THEN SetEffectsQuality(q4, Effects) ELSE q4
        q6 == IF Foliage >= 0 THEN SetFoliageQuality(q5, Foliage) ELSE q5
    IN  IF ViewDistance >= 0 THEN SetViewDistanceQuality(q6, ViewDistance) ELSE q6

\* AFlutterBridge::ApplyQualitySettings: the overall level first, if it is
\* not negative, then every field that is not negative
ApplyQualitySettings(q, QualityLevel, AntiAliasing, Shadow, PostProcess, Texture, Effects, Foliage, ViewDistance) ==
    LET q0 == IF QualityLevel >= 0 THEN SetScalabilityQuality(q, QualityLevel) ELSE q
        q1 == IF AntiAliasing >= 0 THEN SetAntiAliasingQuality(q0, AntiAliasing) ELSE q0
        q2 == IF Shadow >= 0 THEN SetShadowQuality(q1, Shadow) ELSE q1
        q3 == IF PostProcess >= 0 THEN SetPostProcessQuality(q2, PostProcess) ELSE q2
        q4 == IF Texture >= 0 THEN SetTextureQuality(q3, Texture) ELSE q3
        q5 == IF Effects >= 0 THEN SetEffectsQuality(q4, Effects) ELSE q4
        q6 == IF Foliage >= 0 THEN SetFoliageQuality(q5, Foliage) ELSE q5
    IN  IF ViewDistance >= 0 THEN SetViewDistanceQuality(q6, ViewDistance) ELSE q6

\* the arguments of the call are kept in last.BinaryData, the overall level
\* first
DoApplyQualitySettings(QualityLevel, AntiAliasing, Shadow, PostProcess, Texture, Effects, Foliage, ViewDistance) ==
    /\ QualityLevels' = ApplyQualitySettings(QualityLevels, QualityLevel,
                            AntiAliasing, Shadow, PostProcess, Texture, Effects,
                            Foliage, ViewDistance)
    /\ UNCHANGED otherVars
    /\ UNCHANGED <<bHasBegunPlay, bIsRegistered, ActiveTransfers, bIsRegisteredSecond>>
    /\ ApplyRouter(Call("ApplyQualitySettings", EmptyString, EmptyString, EmptyString,
                        <<QualityLevel, AntiAliasing, Shadow, PostProcess, Texture,
                          Effects, Foliage, ViewDistance>>, nullptr, FALSE, 0),
                   Router)

\* the overall levels, the per-field values and the qualities of the engine
\* before the call
LevelArguments == {-1, 0, 1}
FieldArguments == {-1, 0}
InitialQualityLevels == {SingleQualityLevel(2), SingleQualityLevel(DefaultQualityLevel)}

\* Runs of SpecQuality: ApplyQualitySettings is called with every
\* combination of the arguments on an engine at one of the initial qualities.
InitQuality ==
    /\ InitObjects
    /\ QualityLevels \in InitialQualityLevels
    /\ budget = MaxQualitySteps
    /\ scen = ScenIdle(FALSE)
    /\ hist = HistOff

NextQuality ==
    \E QualityLevel \in LevelArguments,
       AntiAliasing \in FieldArguments, Shadow \in FieldArguments,
       PostProcess \in FieldArguments, Texture \in FieldArguments,
       Effects \in FieldArguments, Foliage \in FieldArguments,
       ViewDistance \in FieldArguments :
         DoApplyQualitySettings(QualityLevel, AntiAliasing, Shadow, PostProcess,
                                Texture, Effects, Foliage, ViewDistance)

SpecQuality == InitQuality /\ [][NextQuality]_vars

\* the position of the argument of a field in last.BinaryData
ArgumentOf(Field) ==
    CASE Field = "AntiAliasingQuality" -> 2
      [] Field = "ShadowQuality" -> 3
      [] Field = "PostProcessQuality" -> 4
      [] Field = "TextureQuality" -> 5
      [] Field = "EffectsQuality" -> 6
      [] Field = "FoliageQuality" -> 7
      [] Field = "ViewDistanceQuality" -> 8

SecondActorObject == "AMyGameActor_1"
SecondOnFlutterMessageInternal == "AMyGameActor_1.OnFlutterMessageInternal"

\* AFlutterActor::RegisterWithFlutter of the second actor, the router part
SecondRegisterWithFlutter(r) ==
    LET t == RegisterTarget(r, ActorTargetName, SecondActorObject, TRUE)
    IN  RegisterMethod(t, ActorTargetName, "*", SecondOnFlutterMessageInternal)

\* AFlutterActor::UnregisterFromFlutter of the second actor, the router part
SecondUnregisterFromFlutter(r) ==
    IF bIsRegisteredSecond THEN UnregisterTarget(r, ActorTargetName) ELSE r

\* AFlutterActor::BeginPlay of the second actor
DoSecondActorBeginPlay ==
    /\ ~bIsRegisteredSecond
    /\ bIsRegisteredSecond' = TRUE
    /\ UNCHANGED otherVars
    /\ UNCHANGED <<bHasBegunPlay, bIsRegistered, ActiveTransfers, QualityLevels>>
    /\ ApplyRouter(Call("SecondActorBeginPlay", ActorTargetName, EmptyString,
                        EmptyString, EmptyBytes, SecondActorObject, TRUE, 0),
                   SecondRegisterWithFlutter(Router))

\* AFlutterActor::EndPlay of the second actor
DoSecondActorEndPlay ==
    /\ bIsRegisteredSecond' = FALSE
    /\ UNCHANGED otherVars
    /\ UNCHANGED <<bHasBegunPlay, bIsRegistered, ActiveTransfers, QualityLevels>>
    /\ ApplyRouter(Call("SecondActorEndPlay", ActorTargetName, EmptyString,
                        EmptyString, EmptyBytes, SecondActorObject, FALSE, 0),
                   SecondUnregisterFromFlutter(Router))

\* Runs of SpecActors: two singleton actors of the same target name begin
\* and end play in any order while messages are routed to the name.
InitActors ==
    /\ InitRouter
    /\ budget = MaxActorsSteps
    /\ scen = ScenIdle(FALSE)
    /\ hist = HistOff

NextActors ==
    \/ DoActorBeginPlay
    \/ DoActorEndPlay
    \/ DoSecondActorBeginPlay
    \/ DoSecondActorEndPlay
    \/ \E D \in TextData : DoRouteMessage(ActorTargetName, "*", D)

SpecActors == InitActors /\ [][NextActors]_vars

\* the first actor is in play, is the registered object of the name and the
\* handler of the name is bound to it
FirstActorOccupies ==
    /\ bIsRegistered
    /\ Contains(Targets, ActorTargetName)
    /\ Targets[ActorTargetName] = ActorObject
    /\ Contains(CachedDelegates, GetCacheKey(ActorTargetName, "*"))
    /\ CachedDelegates[GetCacheKey(ActorTargetName, "*")] = OnFlutterMessageInternal

\* C26: while the first actor occupies the name, neither BeginPlay nor
\* EndPlay of the second actor takes the registration or the handler of the
\* name from the first actor.
C26_FirstActorKept ==
    [][(FirstActorOccupies
        /\ last'.op \in {"SecondActorBeginPlay", "SecondActorEndPlay"})
       => /\ Contains(Targets', ActorTargetName)
          /\ Targets'[ActorTargetName] = ActorObject
          /\ Contains(CachedDelegates', GetCacheKey(ActorTargetName, "*"))
          /\ CachedDelegates'[GetCacheKey(ActorTargetName, "*")] =
                OnFlutterMessageInternal]_vars

\* the second actor has ended play and the name, which the first actor had
\* registered and which is still in play, is not registered any more
C26_FirstActorUnregistered ==
    /\ last.op = "SecondActorEndPlay"
    /\ bIsRegistered
    /\ ~Contains(Targets, ActorTargetName)

(***************************************************************************)
(* Target and method names that contain ':'.                               *)
(***************************************************************************)

\* target and method names, with and without ':'
ColonTargetNames == {"A", "A:x"}
ColonMethodNames == {"m", "x:m"}

\* Runs of SpecNames: targets and handlers of these names are registered and
\* unregistered and messages are routed to them; the calls are recorded.
InitNames ==
    /\ InitRouter
    /\ budget = MaxNameSteps
    /\ scen = ScenIdle(FALSE)
    /\ hist = HistOn

NextNames ==
    \/ \E Name \in ColonTargetNames : DoRegisterTarget(Name, "o1", FALSE)
    \/ \E Name \in ColonTargetNames : DoUnregisterTarget(Name)
    \/ \E T \in ColonTargetNames, M \in ColonMethodNames, D \in {"h1", "h2"} :
            DoRegisterMethod(T, M, D)
    \/ \E T \in ColonTargetNames : DoRegisterBinaryMethod(T, "m", "bh1")
    \/ \E T \in ColonTargetNames, M \in ColonMethodNames :
            DoRouteMessage(T, M, "d1")

SpecNames == InitNames /\ [][NextNames]_vars

\* the handlers of the target Name in the cache Map under the methods used
HandlersOf(Map, Name) ==
    {<<M, Map[GetCacheKey(Name, M)]>> :
        M \in {N \in MethodNames \cup ColonMethodNames :
                  Contains(Map, GetCacheKey(Name, N))}}

\* C27: UnregisterTarget(name) of a registered name removes its entry and
\* its singleton flag and leaves every other target, with its flag and its
\* text and binary handlers, the queue and the routed and dropped counters
\* as they were; of a name that is not registered it changes nothing.
C27_UnregisterFrame ==
    [][last'.op = "UnregisterTarget"
       => IF Contains(Targets, last'.Target)
          THEN /\ Targets' = MapRemove(Targets, {last'.Target})
               /\ SingletonFlags' = MapRemove(SingletonFlags, {last'.Target})
               /\ \A Other \in (TargetNames \cup ColonTargetNames) \ {last'.Target} :
                     /\ HandlersOf(CachedDelegates', Other) =
                           HandlersOf(CachedDelegates, Other)
                     /\ HandlersOf(CachedBinaryDelegates', Other) =
                           HandlersOf(CachedBinaryDelegates, Other)
               /\ MessageQueue' = MessageQueue
               /\ Statistics'.MessagesRouted = Statistics.MessagesRouted
               /\ Statistics'.MessagesDropped = Statistics.MessagesDropped
          ELSE UNCHANGED <<Targets, SingletonFlags, CachedDelegates,
                           CachedBinaryDelegates, MessageQueue,
                           bQueueUnknownTargets, MaxQueueSize, Statistics>>]_vars

\* UnregisterTarget was called for a registered name while another target
\* had a handler
C27_OtherHasHandler ==
    /\ last.op = "UnregisterTarget"
    /\ \E Other \in (TargetNames \cup ColonTargetNames) \ {last.Target} :
          HandlersOf(CachedDelegates, Other) # {}

\* the handlers registered so far with RegisterMethod for exactly the pair
\* of Target and Method
RegisteredFor(Target, Method) ==
    {hist.calls[k].Object :
        k \in {n \in 1..Len(hist.calls) :
                  /\ hist.calls[n].op = "RegisterMethod"
                  /\ hist.calls[n].Target = Target
                  /\ hist.calls[n].Method = Method}}

\* the RegisterMethod calls recorded in the calls h
RegisterMethodCalls(h) == {n \in 1..Len(h) : h[n].op = "RegisterMethod"}

\* C28: RouteMessage(T, M, data) executes only handlers that a
\* RegisterMethod call registered for exactly T and M, and the handlers
\* registered for two different pairs of a target and a method are cached
\* under different keys.
C28_DispatchIsolation ==
    [][/\ IsRouteMessage
          => \A i \in 1..Len(last'.calls) :
                last'.calls[i].Delegate \in RegisteredFor(last'.Target, last'.Method)
       /\ \A j \in RegisterMethodCalls(hist'.calls), k \in RegisterMethodCalls(hist'.calls) :
             LET a == hist'.calls[j]
                 b == hist'.calls[k]
             IN  <<a.Target, a.Method>> # <<b.Target, b.Method>>
                 => GetCacheKey(a.Target, a.Method) # GetCacheKey(b.Target, b.Method)]_vars

\* RouteMessage executed the handler registered for its pair although
\* handlers of other pairs were cached
C28_OwnHandler ==
    /\ last.op = "RouteMessage"
    /\ Len(last.calls) = 1
    /\ last.calls[1].Delegate \in RegisteredFor(last.Target, last.Method)
    /\ Cardinality(DOMAIN CachedDelegates) > 1

(***************************************************************************)
(* The queue when messages enter it through the routing calls only.        *)
(***************************************************************************)

\* Runs of SpecRouted: every operation of the router but a direct call of
\* QueueMessage.
InitRouted ==
    /\ InitRouter
    /\ budget = MaxRoutedSteps
    /\ scen = ScenIdle(FALSE)
    /\ hist = HistOff

NextRouted ==
    \/ \E Name \in TargetNames, Target \in Objects \cup {nullptr},
          bIsSingleton \in BOOLEAN :
            DoRegisterTarget(Name, Target, bIsSingleton)
    \/ \E Name \in TargetNames : DoUnregisterTarget(Name)
    \/ \E T \in TargetNames, M \in MethodNames, D \in TextDelegates :
            DoRegisterMethod(T, M, D)
    \/ \E T \in TargetNames, M \in MethodNames, D \in BinaryDelegates :
            DoRegisterBinaryMethod(T, M, D)
    \/ \E T \in TargetNames, M \in MethodNames : DoUnregisterMethod(T, M)
    \/ \E T \in TargetNames, M \in MethodNames, D \in TextData :
            DoRouteMessage(T, M, D)
    \/ \E T \in TargetNames, M \in MethodNames, D \in BinaryData :
            DoRouteBinaryMessage(T, M, D)
    \/ DoFlushQueue
    \/ DoClearQueue
    \/ DoResetStatistics
    \/ \E bEnable \in BOOLEAN : DoSetQueueUnknownTargets(bEnable)
    \/ \E Size \in QueueSizes : DoSetMaxQueueSize(Size)

SpecRouted == InitRouted /\ [][NextRouted]_vars

\* C29: every message in the queue is addressed to a target that is not
\* registered.
C29_QueueHoldsSoftMisses ==
    \A i \in 1..Len(MessageQueue) : ~Contains(Targets, MessageQueue[i].Target)

\* a RegisterTarget has registered a target that had a message in the queue
\* and a message to the other target is still queued
C29_Witness ==
    /\ last.op = "RegisterTarget"
    /\ Contains(Targets, last.Target)
    /\ last.QueuedBefore = 2
    /\ Len(MessageQueue) = 1
    /\ MessageQueue[1].Target # last.Target

(***************************************************************************)
(* At-most-once delivery.                                                  *)
(***************************************************************************)

\* the payload of the message submitted by the call that is made when n
\* calls are left: no two calls of a run submit the same payload
FreshData(n) == "d" \o ToString(n)
FreshBytes(n) == <<n>>

\* Runs of SpecOnce: every RouteMessage and RouteBinaryMessage call submits
\* a payload of its own, targets and handlers are registered and
\* unregistered, and the queue is flushed; the calls are recorded.
InitOnce ==
    /\ InitRouter
    /\ budget = MaxOnceSteps
    /\ scen = ScenIdle(FALSE)
    /\ hist = HistOn

NextOnce ==
    \/ \E T \in TargetNames : DoRouteMessage(T, "m", FreshData(budget))
    \/ \E T \in TargetNames : DoRouteBinaryMessage(T, "m", FreshBytes(budget))
    \/ \E T \in TargetNames : DoRegisterTarget(T, "o1", FALSE)
    \/ \E T \in TargetNames : DoUnregisterTarget(T)
    \/ \E T \in TargetNames : DoRegisterMethod(T, "m", "h1")
    \/ \E T \in TargetNames : DoRegisterBinaryMethod(T, "m", "bh1")
    \/ DoFlushQueue
    \/ \E bEnable \in BOOLEAN : DoSetQueueUnknownTargets(bEnable)

SpecOnce == InitOnce /\ [][NextOnce]_vars

\* the handler executions recorded so far: the call and the position in it
Executions ==
    {p \in (1..Len(hist.calls)) \X (1..MaxOnceSteps + 1) :
        p[2] <= Len(hist.calls[p[1]].calls)}

\* the payload a handler execution was given
PayloadOf(p) ==
    LET e == hist.calls[p[1]].calls[p[2]]
    IN  <<e.bIsBinary, e.Data, e.BinaryData>>

\* C30: no two handler executions of a run were given the same payload, so
\* a submitted message is executed at most once whatever FlushQueue and
\* RegisterTarget calls follow, and no message is in the queue twice.
C30_AtMostOnce ==
    /\ \A p \in Executions, q \in Executions :
          p # q => PayloadOf(p) # PayloadOf(q)
    /\ \A i \in 1..Len(MessageQueue), j \in 1..Len(MessageQueue) :
          i # j => MessageQueue[i] # MessageQueue[j]

\* a queued message was delivered by a flush and a FlushQueue followed it
C30_Witness ==
    /\ last.op = "FlushQueue"
    /\ last.calls = <<>>
    /\ \E p \in Executions :
          /\ hist.calls[p[1]].op \in {"FlushQueue", "RegisterTarget"}
          /\ p[1] < Len(hist.calls)


(***************************************************************************)
(* Message accounting.                                                     *)
(***************************************************************************)

\* Runs of SpecAccounting: messages are submitted through RouteMessage and
\* RouteBinaryMessage only, targets and handlers are registered and
\* unregistered, the queue is flushed and its limit is set; ClearQueue and
\* ResetStatistics are not called.  The calls are recorded.
InitAccounting ==
    /\ InitRouter
    /\ budget = MaxAccountingSteps
    /\ scen = ScenIdle(FALSE)
    /\ hist = HistOn

NextAccounting ==
    \/ \E T \in TargetNames : DoRouteMessage(T, "m", "d1")
    \/ \E T \in TargetNames : DoRouteBinaryMessage(T, "m", <<7>>)
    \/ \E T \in TargetNames : DoRegisterTarget(T, "o1", FALSE)
    \/ \E T \in TargetNames : DoUnregisterTarget(T)
    \/ \E T \in TargetNames : DoRegisterMethod(T, "m", "h1")
    \/ \E T \in TargetNames : DoRegisterBinaryMethod(T, "m", "bh1")
    \/ DoFlushQueue
    \/ \E bEnable \in BOOLEAN : DoSetQueueUnknownTargets(bEnable)
    \/ \E Size \in {1, 2} : DoSetMaxQueueSize(Size)

SpecAccounting == InitAccounting /\ [][NextAccounting]_vars

\* the number of messages callers have submitted so far
Submitted ==
    Cardinality({i \in 1..Len(hist.calls) :
                    hist.calls[i].op \in {"RouteMessage", "RouteBinaryMessage"}})

\* C31: at every operation boundary of a run without ClearQueue and
\* ResetStatistics, the number of messages submitted through RouteMessage
\* and RouteBinaryMessage equals MessagesRouted + MessagesDropped + the
\* length of the queue.
C31_Conservation ==
    Submitted = Statistics.MessagesRouted + Statistics.MessagesDropped
                + Len(MessageQueue)


(***************************************************************************)
(* Order of delivery per target.                                           *)
(***************************************************************************)

\* the RouteMessage calls recorded so far
Submissions == {i \in 1..Len(hist.calls) : hist.calls[i].op = "RouteMessage"}

\* the handler executions that were given the message submitted by call i
DeliveriesOf(i) ==
    {p \in Executions : PayloadOf(p) = <<FALSE, hist.calls[i].Data, EmptyBytes>>}

\* the message submitted by call i is in the queue
StillQueued(i) ==
    \E k \in 1..Len(MessageQueue) :
        MessageQueue[k] = TextMessage(hist.calls[i].Target, hist.calls[i].Method,
                                      hist.calls[i].Data)

\* execution p came before execution q
Earlier(p, q) == p[1] < q[1] \/ (p[1] = q[1] /\ p[2] < q[2])

\* C32: of two RouteMessage calls for the same target, the message of the
\* later call is not delivered while the message of the earlier call is
\* still queued, and when both are delivered the earlier one is delivered
\* first.
C32_PerTargetFIFO ==
    \A i \in Submissions, j \in Submissions :
        (/\ i < j
         /\ hist.calls[i].Target = hist.calls[j].Target
         /\ DeliveriesOf(j) # {})
        => /\ ~StillQueued(i)
           /\ \A p \in DeliveriesOf(i), q \in DeliveriesOf(j) : Earlier(p, q)

(***************************************************************************)
(* The queue after queuing has been disabled.                              *)
(***************************************************************************)

\* Runs of SpecDisabled: messages are routed and queued, handlers and
\* targets are registered, queuing is disabled and enabled, the queue is
\* flushed by RegisterTarget and by FlushQueue.
InitDisabled ==
    /\ InitRouter
    /\ budget = MaxDisabledSteps
    /\ scen = ScenIdle(FALSE)
    /\ hist = HistOff

NextDisabled ==
    \/ \E T \in TargetNames, M \in MethodNames, D \in TextData :
            DoRouteMessage(T, M, D)
    \/ \E T \in TargetNames, M \in MethodNames, D \in BinaryData :
            DoRouteBinaryMessage(T, M, D)
    \/ \E T \in TargetNames, M \in MethodNames : DoRegisterMethod(T, M, "h1")
    \/ \E T \in TargetNames, M \in MethodNames :
            DoRegisterBinaryMethod(T, M, "bh1")
    \/ \E Name \in TargetNames, bIsSingleton \in BOOLEAN :
            DoRegisterTarget(Name, "o1", bIsSingleton)
    \/ \E bEnable \in BOOLEAN : DoSetQueueUnknownTargets(bEnable)
    \/ DoFlushQueue

SpecDisabled == InitDisabled /\ [][NextDisabled]_vars

\* C33: SetQueueUnknownTargets(false) leaves the queue as it is; a flush
\* (FlushQueue, or a RegisterTarget that accepts the registration) made
\* while queuing is disabled leaves the queue empty, delivers the entries
\* that have a bound cached handler, once each in queue order, and adds one
\* to MessagesDropped for every other entry, those of a target that is still
\* unknown included.
C33_DisabledFlush ==
    [][/\ (last'.op = "SetQueueUnknownTargets" /\ ~last'.Flag)
           => (MessageQueue' = MessageQueue /\ ~bQueueUnknownTargets')
       /\ (IsFlush /\ ~bQueueUnknownTargets)
           => LET Del == SelectSeq(MessageQueue, Deliverable)
              IN  /\ MessageQueue' = <<>>
                  /\ Statistics'.QueuedMessages = 0
                  /\ last'.calls = [i \in 1..Len(Del) |-> Delivery(Del[i])]
                  /\ Statistics'.MessagesRouted =
                         Statistics.MessagesRouted + Len(Del)
                  /\ Statistics'.MessagesDropped =
                         Statistics.MessagesDropped
                         + (Len(MessageQueue) - Len(Del))]_vars

\* a FlushQueue made while queuing was disabled emptied a queue of two
\* entries: one was delivered, the other, to a target that is not
\* registered, was counted as dropped
C33_Witness ==
    /\ last.op = "FlushQueue"
    /\ ~bQueueUnknownTargets
    /\ last.QueuedBefore = 2
    /\ Len(last.calls) = 1
    /\ Targets = EmptyMap
    /\ Statistics.MessagesRouted = 1
    /\ Statistics.MessagesDropped = 1
    /\ MessageQueue = <<>>

\* a RegisterTarget made while queuing was disabled emptied the queue and
\* dropped the entry of the other, unregistered target
C33_WitnessRegisterTarget ==
    /\ last.op = "RegisterTarget"
    /\ ~bQueueUnknownTargets
    /\ last.QueuedBefore = 2
    /\ DOMAIN Targets = {last.Target}
    /\ Statistics.MessagesDropped = 2
    /\ MessageQueue = <<>>

(***************************************************************************)
(* AFlutterBridge: the instance pointers over BeginPlay and EndPlay.       *)
(***************************************************************************)

FlutterBridge_SetInstance_Android(s, b) ==
    [s EXCEPT !.GFlutterBridgeInstance = b]

\* AFlutterBridge::InitializePlatformBridge on a platform that has a bridge
InitializePlatformBridge(s, b) == FlutterBridge_SetInstance_Android(s, b)

\* AFlutterBridge::BeginPlay
BridgeBeginPlay(s, b) ==
    InitializePlatformBridge([s EXCEPT !.Instance = b,
                                       !.Actors[b].Phase = "Playing"], b)

\* AFlutterBridge::EndPlay
BridgeEndPlay(s, b) ==
    [s EXCEPT !.Instance = IF @ = b THEN nullptr ELSE @,
              !.Actors[b].Phase = "Ended"]

\* the fields of an actor after a method that writes the fields of Writes
Written(a, Writes) ==
    [f \in DOMAIN a |-> IF f \in DOMAIN Writes THEN Writes[f] ELSE a[f]]

\* a method that writes no field of the actor
NoWrites == <<>>

\* if (GFlutterBridgeInstance) GFlutterBridgeInstance->Method(): Writes are
\* the fields the method writes, Stale the fields of an actor that has
\* ended after a call on it (the object may have been destroyed)
CallOnInstance(s, Writes, Stale) ==
    IF s.GFlutterBridgeInstance = nullptr
    THEN [s EXCEPT !.to = nullptr]
    ELSE LET b == s.GFlutterBridgeInstance
         IN  [s EXCEPT !.to = b,
                       !.ended = (s.Actors[b].Phase = "Ended"),
                       !.Actors[b] = IF @.Phase = "Ended"
                                     THEN [Stale EXCEPT !.Phase = "Ended"]
                                     ELSE Written(@, Writes)]

\* nativeSendMessage: AFlutterBridge::ReceiveFromFlutter fires the
\* Blueprint event
nativeSendMessage(s, Target, Method, Data, Stale) ==
    LET t == CallOnInstance(s, NoWrites, Stale)
    IN  IF t.to = nullptr
        THEN t
        ELSE [t EXCEPT !.calls = Append(@, Execute(OnMessageFromFlutter, Method,
                                                    Data, FALSE, EmptyBytes))]

\* nativePause: AFlutterBridge::OnEnginePause
nativePause(s, Stale) ==
    CallOnInstance(s, [bIsPaused |-> TRUE], Stale)

\* nativeResume: AFlutterBridge::OnEngineResume
nativeResume(s, Stale) ==
    CallOnInstance(s, [bIsPaused |-> FALSE], Stale)

\* nativeExecuteConsoleCommand: AFlutterBridge::ExecuteConsoleCommand hands
\* the command to the engine
nativeExecuteConsoleCommand(s, Command, Stale) ==
    CallOnInstance(s, NoWrites, Stale)

\* nativeLoadLevel: AFlutterBridge::LoadLevel
nativeLoadLevel(s, LevelName, Stale) ==
    CallOnInstance(s, [CurrentLevelName |-> LevelName], Stale)

\* FCString::Atoi on the strings the settings map holds
Atoi(Str) ==
    CASE Str = "0" -> 0
      [] Str = "1" -> 1
      [] Str = "2" -> 2
      [] Str = "-1" -> -1
      [] OTHER -> 0

\* SettingsMap.Contains(Key) ? FCString::Atoi(*SettingsMap[Key]) : -1
SettingOf(SettingsMap, Key) ==
    IF Contains(SettingsMap, Key) THEN Atoi(SettingsMap[Key]) ELSE -1

\* nativeApplyQualitySettings
nativeApplyQualitySettings(s, SettingsMap, Stale) ==
    LET t == CallOnInstance(s, NoWrites, Stale)
    IN  IF t.to = nullptr
        THEN t
        ELSE [t EXCEPT !.QualityLevels =
                 ApplyQualitySettings(@,
                     SettingOf(SettingsMap, "qualityLevel"),
                     SettingOf(SettingsMap, "antiAliasingQuality"),
                     SettingOf(SettingsMap, "shadowQuality"),
                     SettingOf(SettingsMap, "postProcessQuality"),
                     SettingOf(SettingsMap, "textureQuality"),
                     SettingOf(SettingsMap, "effectsQuality"),
                     SettingOf(SettingsMap, "foliageQuality"),
                     SettingOf(SettingsMap, "viewDistanceQuality"))]

\* nativeQuit: AFlutterBridge::OnEngineQuit, then the platform pointer is
\* reset
nativeQuit(s, Stale) ==
    [CallOnInstance(s, NoWrites, Stale) EXCEPT !.GFlutterBridgeInstance = nullptr]

\* the variables after a call of a bridge lifecycle method or a platform
\* call that took the statics and actors to s; last records the actor the
\* call was dispatched to (Object) and whether it had ended (Flag)
ApplyStatics(op, Target, Method, Data, Size, s) ==
    /\ Instance' = s.Instance
    /\ GFlutterBridgeInstance' = s.GFlutterBridgeInstance
    /\ BridgeActors' = s.Actors
    /\ QualityLevels' = s.QualityLevels
    /\ UNCHANGED <<assetVars, gameVars>>
    /\ UNCHANGED <<bHasBegunPlay, bIsRegistered, ActiveTransfers,
                   bIsRegisteredSecond>>
    /\ ApplyRouter(Call(op, Target, Method, Data, EmptyBytes, s.to, s.ended, Size),
                   [Router EXCEPT !.ret = (s.to # nullptr), !.calls = s.calls])

DoBridgeBeginPlay(b) ==
    /\ BridgeActors[b].Phase = "Constructed"
    /\ ApplyStatics("AFlutterBridge::BeginPlay", b, EmptyString, EmptyString, 0,
                    BridgeBeginPlay(BridgeStatics, b))

DoBridgeEndPlay(b) ==
    /\ BridgeActors[b].Phase = "Playing"
    /\ ApplyStatics("AFlutterBridge::EndPlay", b, EmptyString, EmptyString, 0,
                    BridgeEndPlay(BridgeStatics, b))

DoGetInstance(First) ==
    ApplyStatics("GetInstance", First, EmptyString, EmptyString, 0,
                 GetInstance(BridgeStatics, First))

DoNativeSendMessage(Target, Method, Data, Stale) ==
    ApplyStatics("nativeSendMessage", Target, Method, Data, 0,
                 nativeSendMessage(BridgeStatics, Target, Method, Data, Stale))

DoNativePause(Stale) ==
    ApplyStatics("nativePause", EmptyString, EmptyString, EmptyString, 0,
                 nativePause(BridgeStatics, Stale))

DoNativeResume(Stale) ==
    ApplyStatics("nativeResume", EmptyString, EmptyString, EmptyString, 0,
                 nativeResume(BridgeStatics, Stale))

DoNativeExecuteConsoleCommand(Command, Stale) ==
    ApplyStatics("nativeExecuteConsoleCommand", EmptyString, EmptyString, Command, 0,
                 nativeExecuteConsoleCommand(BridgeStatics, Command, Stale))

DoNativeLoadLevel(LevelName, Stale) ==
    ApplyStatics("nativeLoadLevel", EmptyString, EmptyString, LevelName, 0,
                 nativeLoadLevel(BridgeStatics, LevelName, Stale))

DoNativeApplyQualitySettings(SettingsMap, Stale) ==
    ApplyStatics("nativeApplyQualitySettings", EmptyString, EmptyString,
                 EmptyString, Cardinality(DOMAIN SettingsMap),
                 nativeApplyQualitySettings(BridgeStatics, SettingsMap, Stale))

DoNativeQuit(Stale) ==
    ApplyStatics("nativeQuit", EmptyString, EmptyString, EmptyString, 0,
                 nativeQuit(BridgeStatics, Stale))

\* the platform calls that are dispatched to the bridge
NativeCalls ==
    {"nativeSendMessage", "nativePause", "nativeResume",
     "nativeExecuteConsoleCommand", "nativeLoadLevel",
     "nativeApplyQualitySettings", "nativeQuit"}

\* the inputs of the platform calls
LevelNames == {"L1"}
SettingsMaps == {EmptyMap, MapAdd(EmptyMap, "qualityLevel", "1")}
\* what the fields of an ended actor can hold after a call on it
StaleActors ==
    [Phase : {"Ended"}, bIsPaused : BOOLEAN,
     CurrentLevelName : LevelNames \cup {EmptyString}]

\* Runs of SpecLifetime: two bridge actors begin and end play, GetInstance
\* is called and the platform calls arrive, in any order.
InitLifetime ==
    /\ InitRouter
    /\ budget = MaxLifetimeSteps
    /\ scen = ScenIdle(FALSE)
    /\ hist = HistOff

NextLifetime ==
    \/ \E b \in BridgeObjects : DoBridgeBeginPlay(b)
    \/ \E b \in BridgeObjects : DoBridgeEndPlay(b)
    \/ \E First \in WorldActors(BridgeStatics) \cup {nullptr} : DoGetInstance(First)
    \/ \E Stale \in StaleActors : DoNativeSendMessage("A", "m", "d1", Stale)
    \/ \E Stale \in StaleActors : DoNativePause(Stale)
    \/ \E Stale \in StaleActors : DoNativeResume(Stale)
    \/ \E Stale \in StaleActors : DoNativeExecuteConsoleCommand("stat fps", Stale)
    \/ \E L \in LevelNames, Stale \in StaleActors : DoNativeLoadLevel(L, Stale)
    \/ \E S \in SettingsMaps, Stale \in StaleActors :
            DoNativeApplyQualitySettings(S, Stale)
    \/ \E Stale \in StaleActors : DoNativeQuit(Stale)

SpecLifetime == InitLifetime /\ [][NextLifetime]_vars

\* C34: neither AFlutterBridge::Instance nor the platform pointer refers to
\* a bridge actor whose EndPlay has run, and no platform call is dispatched
\* to such an actor.
C34_NoEndedBridge ==
    /\ \A b \in BridgeObjects :
          BridgeActors[b].Phase = "Ended"
          => (Instance # b /\ GFlutterBridgeInstance # b)
    /\ last.op \in NativeCalls => ~last.Flag

\* a platform call was dispatched to a bridge actor that had ended play
C34_DispatchedToEnded ==
    /\ last.op = "nativeSendMessage"
    /\ last.Object \in BridgeObjects
    /\ last.Flag
    /\ BridgeActors[last.Object].Phase = "Ended"
    /\ Len(last.calls) = 1

(***************************************************************************)
(* UFlutterAssetManager.                                                   *)
(***************************************************************************)

\* the asset paths of the model, what they resolve to when they resolve,
\* and the resource size of each object
AssetPaths == {"/Game/A", "/Game/B"}
ObjectOf(AssetPath) == "UObject:" \o AssetPath
AssetObjects == {ObjectOf(P) : P \in AssetPaths}
ResourceSizeOf(Asset) == IF Asset = ObjectOf("/Game/A") THEN 0 ELSE BaseOverhead
\* the load times the completion callback measures
LoadTimes == {0, 3}
\* the orders in which a TMap of the asset paths can be iterated
IterationOrders == {<<"/Game/A", "/Game/B">>, <<"/Game/B", "/Game/A">>}
\* INT64_MAX, as the largest integer of the model checker
INT64_MAX == 2147483647

\* the asset manager as a record: its fields, the value returned by
\* LoadAssetSync (ret), the events broadcast in the current call (calls) and
\* the number of iterations of the TrimCache loop in it (iterations)
AssetManager ==
    [LoadedAssets |-> LoadedAssets,
     PendingLoads |-> PendingLoads,
     Statistics |-> AssetStatistics,
     CacheMaxSizeBytes |-> CacheMaxSizeBytes,
     ret |-> nullptr, calls |-> <<>>, iterations |-> 0]

\* FFlutterLoadedAsset
LoadedAsset(AssetPath, State, Asset, LoadTimeMs, SizeBytes) ==
    [AssetPath |-> AssetPath, State |-> State, Asset |-> Asset,
     LoadTimeMs |-> LoadTimeMs, SizeBytes |-> SizeBytes]

EstimateAssetSize(Asset) ==
    IF Asset = nullptr THEN 0 ELSE BaseOverhead + ResourceSizeOf(Asset)

IsAssetLoaded(a, AssetPath) ==
    /\ Contains(a.LoadedAssets, AssetPath)
    /\ a.LoadedAssets[AssetPath].State = "Loaded"

\* an event broadcast for AssetPath, with what IsAssetLoaded(AssetPath)
\* returns at that moment; Flutter says whether NotifyFlutter... found a
\* bridge (AFlutterBridge::GetInstance() without a world context)
Broadcast(a, Event, AssetPath) ==
    [a EXCEPT !.calls = Append(@, [Event |-> Event, AssetPath |-> AssetPath,
                                   IsAssetLoaded |-> IsAssetLoaded(a, AssetPath),
                                   Flutter |-> Instance # nullptr])]

UnloadAsset(a, AssetPath) ==
    IF Contains(a.LoadedAssets, AssetPath)
    THEN Broadcast([a EXCEPT
                      !.Statistics.TotalAssetsUnloaded = @ + 1,
                      !.Statistics.CurrentMemoryUsage =
                          @ - a.LoadedAssets[AssetPath].SizeBytes,
                      !.LoadedAssets = MapRemove(@, {AssetPath})],
                   "OnAssetUnloaded", AssetPath)
    ELSE a

RECURSIVE UnloadAssets(_, _)
UnloadAssets(a, Paths) ==
    IF Paths = <<>>
    THEN a
    ELSE UnloadAssets(UnloadAsset(a, Head(Paths)), Tail(Paths))

\* UnloadAllAssets; Order is the order in which GetKeys returns the keys
UnloadAllAssets(a, Order) ==
    UnloadAssets(a, SelectSeq(Order, LAMBDA P : Contains(a.LoadedAssets, P)))

ClearCache(a, Order) ==
    [UnloadAllAssets(a, Order) EXCEPT !.Statistics.CurrentMemoryUsage = 0]

RECURSIVE OldestLoop_AnyState(_, _, _, _)
\* the search loop of TrimCache without the test of the state
OldestLoop_AnyState(a, Paths, OldestPath, OldestTime) ==
    IF Paths = <<>>
    THEN OldestPath
    ELSE LET P == Head(Paths)
         IN  IF /\ Contains(a.LoadedAssets, P)
                /\ a.LoadedAssets[P].LoadTimeMs < OldestTime
             THEN OldestLoop_AnyState(a, Tail(Paths), P, a.LoadedAssets[P].LoadTimeMs)
             ELSE OldestLoop_AnyState(a, Tail(Paths), OldestPath, OldestTime)

RECURSIVE OldestLoop(_, _, _, _)
\* the for loop of TrimCache over LoadedAssets, in the order Paths
OldestLoop(a, Paths, OldestPath, OldestTime) ==
    IF Paths = <<>>
    THEN OldestPath
    ELSE LET P == Head(Paths)
         IN  IF /\ Contains(a.LoadedAssets, P)
                /\ a.LoadedAssets[P].State = "Loaded"
                /\ a.LoadedAssets[P].LoadTimeMs < OldestTime
             THEN OldestLoop(a, Tail(Paths), P, a.LoadedAssets[P].LoadTimeMs)
             ELSE OldestLoop(a, Tail(Paths), OldestPath, OldestTime)

RECURSIVE TrimCache(_, _)
\* TrimCache; Order is the iteration order of LoadedAssets
TrimCache(a, Order) ==
    IF /\ a.Statistics.CurrentMemoryUsage > a.CacheMaxSizeBytes
       /\ Cardinality(DOMAIN a.LoadedAssets) > 0
    THEN LET OldestPath == OldestLoop(a, Order, EmptyString, INT64_MAX)
             t == [a EXCEPT !.iterations = @ + 1]
         IN  IF OldestPath # EmptyString
             THEN TrimCache(UnloadAsset(t, OldestPath), Order)
             ELSE t
    ELSE a

SetCacheMaxSize(a, MaxSizeBytes, Order) ==
    TrimCache([a EXCEPT !.CacheMaxSizeBytes = MaxSizeBytes], Order)

\* HandleAssetLoaded; UpdateProgress returns at once, no batch being loaded
HandleAssetLoaded(a, AssetPath, Order) ==
    LET t == Broadcast(a, "OnAssetLoaded", AssetPath)
    IN  IF t.Statistics.CurrentMemoryUsage > t.CacheMaxSizeBytes
        THEN TrimCache(t, Order)
        ELSE t

\* LoadAsset up to the return of RequestAsyncLoad: the completion callback
\* runs later
LoadAsset(a, AssetPath) ==
    IF AssetPath = EmptyString
    THEN a
    ELSE IF IsAssetLoaded(a, AssetPath)
    THEN Broadcast([a EXCEPT !.Statistics.CacheHits = @ + 1],
                   "OnAssetLoaded", AssetPath)
    ELSE LET t == [a EXCEPT !.Statistics.CacheMisses = @ + 1]
         IN  IF AssetPath \in t.PendingLoads
             THEN t
             ELSE [t EXCEPT
                     !.LoadedAssets =
                         MapAdd(@, AssetPath,
                                LoadedAsset(AssetPath, "Loading", nullptr, 0, 0)),
                     !.PendingLoads = @ \cup {AssetPath}]

\* the completion callback LoadAsset hands to RequestAsyncLoad; LoadedObject
\* is what SoftPath.ResolveObject() returns, LoadTimeMs the time measured
LoadCompleted(a, AssetPath, LoadedObject, LoadTimeMs, Order) ==
    LET t == IF LoadedObject # nullptr
             THEN LET u == IF Contains(a.LoadedAssets, AssetPath)
                           THEN [a EXCEPT
                                   !.LoadedAssets[AssetPath] =
                                       LoadedAsset(AssetPath, "Loaded", LoadedObject,
                                                   LoadTimeMs,
                                                   EstimateAssetSize(LoadedObject)),
                                   !.Statistics.TotalAssetsLoaded = @ + 1,
                                   !.Statistics.TotalBytesLoaded =
                                       @ + EstimateAssetSize(LoadedObject),
                                   !.Statistics.CurrentMemoryUsage =
                                       @ + EstimateAssetSize(LoadedObject)]
                           ELSE a
                  IN  HandleAssetLoaded(u, AssetPath, Order)
             ELSE LET u == IF Contains(a.LoadedAssets, AssetPath)
                           THEN [a EXCEPT !.LoadedAssets[AssetPath].State = "Failed"]
                           ELSE a
                  IN  Broadcast(u, "OnAssetFailed", AssetPath)
    IN  [t EXCEPT !.PendingLoads = @ \ {AssetPath}]

\* LoadAssetSync; LoadedObject is what LoadSynchronous returns
LoadAssetSync(a, AssetPath, LoadedObject) ==
    IF AssetPath = EmptyString
    THEN [a EXCEPT !.ret = nullptr]
    ELSE IF /\ IsAssetLoaded(a, AssetPath)
            /\ a.LoadedAssets[AssetPath].Asset # nullptr
    THEN [a EXCEPT !.Statistics.CacheHits = @ + 1,
                   !.ret = a.LoadedAssets[AssetPath].Asset]
    ELSE LET t == [a EXCEPT !.Statistics.CacheMisses = @ + 1, !.ret = LoadedObject]
         IN  IF LoadedObject # nullptr
             THEN [t EXCEPT
                     !.LoadedAssets =
                         MapAdd(@, AssetPath,
                                LoadedAsset(AssetPath, "Loaded", LoadedObject, 0,
                                            EstimateAssetSize(LoadedObject))),
                     !.Statistics.TotalAssetsLoaded = @ + 1,
                     !.Statistics.TotalBytesLoaded =
                         @ + EstimateAssetSize(LoadedObject),
                     !.Statistics.CurrentMemoryUsage =
                         @ + EstimateAssetSize(LoadedObject)]
             ELSE t

\* the variables after a call of an asset manager method that took the
\* asset manager to a; last records the events broadcast (calls), the number
\* of iterations of the TrimCache loop (Size) and the path (Target)
ApplyAssets(op, AssetPath, Object, a) ==
    /\ LoadedAssets' = a.LoadedAssets
    /\ PendingLoads' = a.PendingLoads
    /\ AssetStatistics' = a.Statistics
    /\ CacheMaxSizeBytes' = a.CacheMaxSizeBytes
    /\ UNCHANGED <<bridgeVars, gameVars>>
    /\ UNCHANGED <<bHasBegunPlay, bIsRegistered, ActiveTransfers,
                   bIsRegisteredSecond, QualityLevels>>
    /\ ApplyRouter(Call(op, AssetPath, EmptyString, EmptyString, EmptyBytes,
                        Object, FALSE, a.iterations),
                   [Router EXCEPT !.ret = (a.ret # nullptr), !.calls = a.calls])

DoLoadAsset(AssetPath) ==
    ApplyAssets("LoadAsset", AssetPath, nullptr, LoadAsset(AssetManager, AssetPath))

\* the streamable manager runs the completion callback of a pending load;
\* the path of an asset that LoadedAssets holds loaded resolves to the
\* object
DoLoadCompleted(AssetPath, LoadedObject, LoadTimeMs, Order) ==
    /\ AssetPath \in PendingLoads
    /\ IsAssetLoaded(AssetManager, AssetPath) => LoadedObject # nullptr
    /\ ApplyAssets("LoadCompleted", AssetPath, LoadedObject,
                   LoadCompleted(AssetManager, AssetPath, LoadedObject,
                                 LoadTimeMs, Order))

DoLoadAssetSync(AssetPath, LoadedObject) ==
    ApplyAssets("LoadAssetSync", AssetPath, LoadedObject,
                LoadAssetSync(AssetManager, AssetPath, LoadedObject))

DoUnloadAsset(AssetPath) ==
    ApplyAssets("UnloadAsset", AssetPath, nullptr,
                UnloadAsset(AssetManager, AssetPath))

DoUnloadAllAssets(Order) ==
    ApplyAssets("UnloadAllAssets", EmptyString, nullptr,
                UnloadAllAssets(AssetManager, Order))

DoClearCache(Order) ==
    ApplyAssets("ClearCache", EmptyString, nullptr, ClearCache(AssetManager, Order))

DoTrimCache(Order) ==
    ApplyAssets("TrimCache", EmptyString, nullptr, TrimCache(AssetManager, Order))

DoSetCacheMaxSize(MaxSizeBytes, Order) ==
    ApplyAssets("SetCacheMaxSize", EmptyString, nullptr,
                SetCacheMaxSize(AssetManager, MaxSizeBytes, Order))

\* Runs of SpecAssets: assets are loaded asynchronously and synchronously,
\* the pending loads complete, assets are unloaded and the cache is cleared
\* and trimmed, in any order.
InitAssets ==
    /\ InitRouter
    /\ budget = MaxAssetSteps
    /\ scen = ScenIdle(FALSE)
    /\ hist = HistOff

NextAssets ==
    \/ \E P \in AssetPaths : DoLoadAsset(P)
    \/ \E P \in AssetPaths, Resolved \in BOOLEAN, T \in LoadTimes,
          Order \in IterationOrders :
            DoLoadCompleted(P, IF Resolved THEN ObjectOf(P) ELSE nullptr, T, Order)
    \/ \E P \in AssetPaths, Resolved \in BOOLEAN :
            DoLoadAssetSync(P, IF Resolved THEN ObjectOf(P) ELSE nullptr)
    \/ \E P \in AssetPaths : DoUnloadAsset(P)
    \/ \E Order \in IterationOrders : DoUnloadAllAssets(Order)
    \/ \E Order \in IterationOrders : DoClearCache(Order)
    \/ \E Order \in IterationOrders : DoTrimCache(Order)

SpecAssets == InitAssets /\ [][NextAssets]_vars

\* the sum of SizeBytes over the entries of LoadedAssets in state Loaded
RECURSIVE SumLoaded(_)
SumLoaded(Paths) ==
    IF Paths = {}
    THEN 0
    ELSE LET P == CHOOSE Q \in Paths : TRUE
         IN  (IF LoadedAssets[P].State = "Loaded" THEN LoadedAssets[P].SizeBytes ELSE 0)
             + SumLoaded(Paths \ {P})

\* C35: Statistics.CurrentMemoryUsage is the sum of SizeBytes over the
\* entries of LoadedAssets that are in state Loaded.
C35_MemoryAccounting ==
    AssetStatistics.CurrentMemoryUsage = SumLoaded(DOMAIN LoadedAssets)

\* C36: every OnAssetLoaded broadcast (with its onAssetLoaded notification)
\* for a path is made while IsAssetLoaded of that path holds.
C36_LoadedIsTruthful ==
    \A i \in 1..Len(last.calls) :
        last.calls[i].Event = "OnAssetLoaded" => last.calls[i].IsAssetLoaded

(***************************************************************************)
(* UFlutterAssetManager::TrimCache.                                        *)
(***************************************************************************)

\* the limits SetCacheMaxSize is called with
CacheSizes == {0, BaseOverhead, 2 * BaseOverhead}

\* Runs of SpecCache: assets are loaded asynchronously and synchronously,
\* the pending loads complete, assets are unloaded, the limit of the cache
\* is set and the cache is trimmed.
InitCache ==
    /\ InitRouter
    /\ budget = MaxCacheSteps
    /\ scen = ScenIdle(FALSE)
    /\ hist = HistOff

NextCache ==
    \/ \E P \in AssetPaths : DoLoadAsset(P)
    \/ \E P \in AssetPaths, Resolved \in BOOLEAN, T \in LoadTimes,
          Order \in IterationOrders :
            DoLoadCompleted(P, IF Resolved THEN ObjectOf(P) ELSE nullptr, T, Order)
    \/ \E P \in AssetPaths, Resolved \in BOOLEAN :
            DoLoadAssetSync(P, IF Resolved THEN ObjectOf(P) ELSE nullptr)
    \/ \E P \in AssetPaths : DoUnloadAsset(P)
    \/ \E Size \in CacheSizes, Order \in IterationOrders :
            DoSetCacheMaxSize(Size, Order)
    \/ \E Order \in IterationOrders : DoTrimCache(Order)

SpecCache == InitCache /\ [][NextCache]_vars

\* the paths whose entry in a map of loaded assets is in one of States
PathsIn(Map, States) == {P \in DOMAIN Map : Map[P].State \in States}

\* C37: TrimCache ends after at most one iteration of its loop for every
\* loaded asset and one more; when it returns (called directly, by
\* SetCacheMaxSize or by the completion of a load) CurrentMemoryUsage is at
\* most CacheMaxSizeBytes or no entry in state Loaded is left; and it leaves
\* every entry in state Loading or Failed as it was.
C37_TrimCache ==
    [][/\ (\/ last'.op \in {"TrimCache", "SetCacheMaxSize"}
            \/ (last'.op = "LoadCompleted" /\ last'.Object # nullptr))
           => \/ AssetStatistics'.CurrentMemoryUsage <= CacheMaxSizeBytes'
              \/ PathsIn(LoadedAssets', {"Loaded"}) = {}
       /\ last'.op \in {"TrimCache", "SetCacheMaxSize"}
           => /\ last'.Size <= Cardinality(PathsIn(LoadedAssets, {"Loaded"})) + 1
              /\ \A P \in PathsIn(LoadedAssets, {"Loading", "Failed"}) :
                    /\ Contains(LoadedAssets', P)
                    /\ LoadedAssets'[P] = LoadedAssets[P]]_vars

\* a call of TrimCache unloaded a loaded asset of a cache over its limit
\* and left an entry in state Loading in the map
C37_Witness ==
    /\ last.op = "TrimCache"
    /\ last.Size >= 1
    /\ Len(last.calls) >= 1
    /\ last.calls[1].Event = "OnAssetUnloaded"
    /\ PathsIn(LoadedAssets, {"Loading"}) # {}
    /\ AssetStatistics.CurrentMemoryUsage <= CacheMaxSizeBytes
-----------------------------------------------------------------------------
(***************************************************************************)
(* AFlutterGameMode: the game state.  bIsGameRunning and bIsGamePaused are *)
(* written by StartGame, PauseGame, ResumeGame, StopGame and GameOver      *)
(* only; every notification goes through NotifyFlutter, which sends it     *)
(* when InitializeFlutter found a bridge.                                  *)
(***************************************************************************)

\* the game mode as a record; calls are the messages sent to Flutter and
\* the Blueprint events fired, in order
GameMode ==
    [bIsGameRunning |-> bIsGameRunning,
     bIsGamePaused |-> bIsGamePaused,
     CurrentScore |-> CurrentScore,
     CurrentLevel |-> CurrentLevel,
     FlutterBridge |-> FlutterBridge,
     calls |-> <<>>]

\* the running/paused state of a game mode
RunState(g) == <<g.bIsGameRunning, g.bIsGamePaused>>

\* a JSON text is held as the fields of its object with their values, in
\* the order they were set; TEXT("{}") has none
EmptyJson == <<>>

\* one entry of calls: fn is SendToFlutter or the name of a Blueprint
\* event, Was the running/paused state when the method that makes the call
\* was entered, Is the state at the call
GameCall(fn, Event, Data, Was, g) ==
    [fn |-> fn, Target |-> FlutterTargetName, Event |-> Event, Data |-> Data,
     Bridge |-> g.FlutterBridge, Was |-> Was, Is |-> RunState(g)]

\* AFlutterGameMode::NotifyFlutter, called by a method entered in state Was
NotifyFlutter(g, Event, Data, Was) ==
    IF g.FlutterBridge # nullptr
    THEN [g EXCEPT !.calls = Append(@, GameCall("SendToFlutter", Event, Data,
                                                Was, g))]
    ELSE g

\* a Blueprint event (OnGameStarted, OnGamePaused, ...) fired by a method
\* entered in state Was
FireEvent(g, Event, Data, Was) ==
    [g EXCEPT !.calls = Append(@, GameCall(Event, Event, Data, Was, g))]

\* PauseGame without the test of bIsGameRunning && !bIsGamePaused
PauseGame_Unguarded(g) ==
    LET t == [g EXCEPT !.bIsGamePaused = TRUE]
    IN  FireEvent(NotifyFlutter(t, "gamePaused", EmptyJson, RunState(g)),
                  "OnGamePaused", EmptyJson, RunState(g))

\* AFlutterGameMode::StartGame
StartGame(g) ==
    IF ~g.bIsGameRunning
    THEN LET t == [g EXCEPT !.bIsGameRunning = TRUE, !.bIsGamePaused = FALSE]
         IN  FireEvent(NotifyFlutter(t, "gameStarted", EmptyJson, RunState(g)),
                       "OnGameStarted", EmptyJson, RunState(g))
    ELSE g

\* AFlutterGameMode::PauseGame
PauseGame(g) ==
    IF g.bIsGameRunning /\ ~g.bIsGamePaused
    THEN LET t == [g EXCEPT !.bIsGamePaused = TRUE]
         IN  FireEvent(NotifyFlutter(t, "gamePaused", EmptyJson, RunState(g)),
                       "OnGamePaused", EmptyJson, RunState(g))
    ELSE g

\* AFlutterGameMode::ResumeGame
ResumeGame(g) ==
    IF g.bIsGameRunning /\ g.bIsGamePaused
    THEN LET t == [g EXCEPT !.bIsGamePaused = FALSE]
         IN  FireEvent(NotifyFlutter(t, "gameResumed", EmptyJson, RunState(g)),
                       "OnGameResumed", EmptyJson, RunState(g))
    ELSE g

\* AFlutterGameMode::StopGame
StopGame(g) ==
    IF g.bIsGameRunning
    THEN LET t == [g EXCEPT !.bIsGameRunning = FALSE, !.bIsGamePaused = FALSE]
         IN  FireEvent(NotifyFlutter(t, "gameStopped", EmptyJson, RunState(g)),
                       "OnGameStopped", EmptyJson, RunState(g))
    ELSE g

\* AFlutterGameMode::GameOver
GameOver(g, Reason) ==
    LET t == [g EXCEPT !.bIsGameRunning = FALSE, !.bIsGamePaused = FALSE]
        JsonString == <<<<"reason", Reason>>,
                        <<"finalScore", t.CurrentScore>>,
                        <<"finalLevel", t.CurrentLevel>>>>
    IN  FireEvent(NotifyFlutter(t, "gameOver", JsonString, RunState(g)),
                  "OnGameOver", Reason, RunState(g))

\* AFlutterGameMode::SetScore
SetScore(g, NewScore) ==
    LET Delta == NewScore - g.CurrentScore
        t == [g EXCEPT !.CurrentScore = NewScore]
        JsonString == <<<<"score", t.CurrentScore>>, <<"delta", Delta>>>>
    IN  FireEvent(NotifyFlutter(t, "scoreChanged", JsonString, RunState(g)),
                  "OnScoreChanged", <<t.CurrentScore, Delta>>, RunState(g))

\* AFlutterGameMode::ResetScore
ResetScore(g) == SetScore(g, 0)

\* AFlutterGameMode::SetLevel
SetLevel(g, NewLevel) ==
    LET t == [g EXCEPT !.CurrentLevel = Max(1, NewLevel)]
        JsonString == <<<<"level", t.CurrentLevel>>>>
    IN  FireEvent(NotifyFlutter(t, "levelChanged", JsonString, RunState(g)),
                  "OnLevelChanged", t.CurrentLevel, RunState(g))

\* AFlutterGameMode::NextLevel
NextLevel(g) == SetLevel(g, g.CurrentLevel + 1)

\* AFlutterGameMode::RestartGame
RestartGame(g) ==
    LET t0 == StopGame(g)
        t1 == ResetScore(t0)
        t2 == [t1 EXCEPT !.CurrentLevel = 1]
    IN  StartGame(t2)

\* the variables after a call op of a game-mode method that took the game
\* mode to g
ApplyGame(op, Data, Size, g) ==
    /\ bIsGameRunning' = g.bIsGameRunning
    /\ bIsGamePaused' = g.bIsGamePaused
    /\ CurrentScore' = g.CurrentScore
    /\ CurrentLevel' = g.CurrentLevel
    /\ FlutterBridge' = g.FlutterBridge
    /\ UNCHANGED <<bridgeVars, assetVars>>
    /\ UNCHANGED <<bHasBegunPlay, bIsRegistered, ActiveTransfers,
                   bIsRegisteredSecond, QualityLevels>>
    /\ ApplyRouter(Call(op, FlutterTargetName, EmptyString, Data, EmptyBytes,
                        GameModeObject, FALSE, Size),
                   [Router EXCEPT !.calls = g.calls])

DoStartGame == ApplyGame("StartGame", EmptyString, 0, StartGame(GameMode))

DoPauseGame == ApplyGame("PauseGame", EmptyString, 0, PauseGame(GameMode))

DoResumeGame == ApplyGame("ResumeGame", EmptyString, 0, ResumeGame(GameMode))

DoStopGame == ApplyGame("StopGame", EmptyString, 0, StopGame(GameMode))

DoGameOver(Reason) ==
    ApplyGame("GameOver", Reason, 0, GameOver(GameMode, Reason))

DoRestartGame ==
    ApplyGame("RestartGame", EmptyString, 0, RestartGame(GameMode))

DoSetLevel(NewLevel) ==
    ApplyGame("SetLevel", EmptyString, NewLevel, SetLevel(GameMode, NewLevel))

DoNextLevel == ApplyGame("NextLevel", EmptyString, 0, NextLevel(GameMode))

\* the reasons GameOver is called with
Reasons == {"Game Over", "timeout"}

\* the levels SetLevel is called with: below the first level and above it
Levels == {0, 3}

\* the game mode from its construction: the game-state methods may be
\* called before BeginPlay (no bridge yet) and after it
InitGame ==
    /\ InitRouter
    /\ budget = MaxGameSteps
    /\ scen = ScenIdle(FALSE)
    /\ hist = HistOff

NextGame ==
    \/ DoBeginPlay
    \/ DoStartGame
    \/ DoPauseGame
    \/ DoResumeGame
    \/ DoStopGame
    \/ \E Reason \in Reasons : DoGameOver(Reason)
    \/ DoRestartGame
    \/ \E NewLevel \in Levels : DoSetLevel(NewLevel)
    \/ DoNextLevel

SpecGame == InitGame /\ [][NextGame]_vars

\* the four notifications of the running/paused state
StateNotifications == {"gameStarted", "gamePaused", "gameResumed", "gameStopped"}

\* the messages of calls that were sent to Flutter with one of the four
\* notifications
StateSent(calls) ==
    {i \in 1..Len(calls) : /\ calls[i].fn = "SendToFlutter"
                           /\ calls[i].Event \in StateNotifications}

\* C38: in every state reached by StartGame, PauseGame, ResumeGame,
\* StopGame, GameOver, RestartGame, SetLevel and NextLevel a paused game is
\* a running game; gameStarted, gamePaused, gameResumed and gameStopped are
\* sent only by an invocation of StartGame, PauseGame, ResumeGame or
\* StopGame (RestartGame invokes StopGame and StartGame) that has changed
\* the running/paused state, each for its own transition; a call of one of
\* the four in a state where it changes nothing sends nothing, and a call
\* other than RestartGame that sent one of the four has left the state
\* different from the one it found.
C38_GameState ==
    /\ [](bIsGamePaused => bIsGameRunning)
    /\ [][LET calls == last'.calls
              Changed == RunState(GameMode)' # RunState(GameMode)
          IN  last'.op \in {"StartGame", "PauseGame", "ResumeGame", "StopGame",
                            "GameOver", "RestartGame", "SetLevel", "NextLevel"}
              => /\ \A i \in StateSent(calls) :
                       /\ calls[i].Was # calls[i].Is
                       /\ calls[i].Event = "gameStarted"
                           => ~calls[i].Was[1] /\ calls[i].Is = <<TRUE, FALSE>>
                       /\ calls[i].Event = "gamePaused"
                           => calls[i].Was = <<TRUE, FALSE>>
                              /\ calls[i].Is = <<TRUE, TRUE>>
                       /\ calls[i].Event = "gameResumed"
                           => calls[i].Was = <<TRUE, TRUE>>
                              /\ calls[i].Is = <<TRUE, FALSE>>
                       /\ calls[i].Event = "gameStopped"
                           => calls[i].Was[1] /\ calls[i].Is = <<FALSE, FALSE>>
                 /\ (last'.op \in {"StartGame", "PauseGame", "ResumeGame",
                                   "StopGame"} /\ ~Changed)
                     => calls = <<>>
                 /\ (last'.op # "RestartGame" /\ StateSent(calls) # {})
                     => Changed
                 /\ (last'.op \in {"SetLevel", "NextLevel", "GameOver"})
                     => StateSent(calls) = {}]_vars

\* a second PauseGame in a row on a game mode with a bridge: the first sent
\* gamePaused, the second found the game paused and sent nothing
C38_Witness ==
    /\ last.op = "PauseGame"
    /\ last.calls = <<>>
    /\ FlutterBridge # nullptr
    /\ bIsGameRunning
    /\ bIsGamePaused

\* RestartGame on a running game with a bridge sent gameStopped and then
\* gameStarted
C38_WitnessRestart ==
    /\ last.op = "RestartGame"
    /\ FlutterBridge # nullptr
    /\ Cardinality(StateSent(last.calls)) = 2
    /\ last.calls[1].Event = "gameStopped"

\* a notification of the four was sent
C38_WitnessSent ==
    /\ last.op = "PauseGame"
    /\ StateSent(last.calls) = {1}
    /\ last.calls[1].Event = "gamePaused"
    /\ last.calls[1].Bridge # nullptr
=============================================================================
